---- MODULE Spec2Model ----
(***************************************************************************)
(* quickshare: one LAN file transfer, from the background send of the web  *)
(* UI (scripts/ui.py, send._bg_send) over a control connection to the      *)
(* receive handler of the web UI (scripts/ui.py, start_recv.make_handler). *)
(*                                                                         *)
(* The callers (_bg_send, _cb, make_handler, on_start, on_complete) are    *)
(* translated from scripts/ui.py.  The engine they call (quickshare.       *)
(* transfer.Sender / Receiver, quickshare.control.ControlServer /          *)
(* send_control_offer, quickshare.fileutils.sha256_file) is imported by    *)
(* scripts/ui.py:23-28 but its source is not part of the tree; it is       *)
(* modelled from sections 3 to 7 of the specification.                     *)
(*                                                                         *)
(* Next to the transfer path (Spec, FairSpec) the module holds the parts   *)
(* of the program that run beside it, each with a specification of its own *)
(* that leaves the rest at rest:                                           *)
(*   RegistrySpec            discover_peers and the peer registry          *)
(*   LifecycleSpec           start() / stop() of the three components      *)
(*   ServerSpec              start_recv / stop_recv, concurrent sessions   *)
(*   EventSpec               enqueue_event, _event_worker, /events/counts  *)
(*   EventsApiSpec           GET /events                                   *)
(*   TransferWorkerSpec      enqueue_transfer_delta, _transfer_worker      *)
(***************************************************************************)
EXTENDS Integers, Sequences, FiniteSets, TLC

\* ------------------------------------------------------------------ bounds
\* Longest source file, in bytes.
MaxLen == 4
\* Largest chunk size, in bytes (scripts/ui.py:1876 uses 1024*1024; the
\* model scales it down and lets it range over 1..MaxChunk).
MaxChunk == 3

\* The byte values a file is made of.
Bytes == {1, 2}

RECURSIVE SeqsOfLen(_)
SeqsOfLen(n) ==
  IF n = 0 THEN {<<>>}
  ELSE {Append(s, b) : s \in SeqsOfLen(n - 1), b \in Bytes}

Files == UNION {SeqsOfLen(n) : n \in 0..MaxLen}

Min(a, b) == IF a < b THEN a ELSE b

\* ------------------------------------------------------------ pure helpers
\* Number of chunks of a file of n bytes cut in pieces of c bytes.
TotalChunks(n, c) == (n + c - 1) \div c

\* The payload of chunk i (0-based) of file f cut in pieces of c bytes.
ChunkOf(f, i, c) == SubSeq(f, i * c + 1, Min((i + 1) * c, Len(f)))

\* Content digest: a positional hash over the bytes, folded left to right.
RECURSIVE DigestFrom(_, _)
DigestFrom(h, s) ==
  IF s = <<>> THEN h ELSE DigestFrom((h * 3 + Head(s)) % 1009, Tail(s))

sha256_file(f) == DigestFrom(0, f)

\* The Offer a Sender makes for file f and chunk size c.
OfferOf(f, c) ==
  [filename |-> "a.bin", size |-> Len(f),
   total_chunks |-> TotalChunks(Len(f), c), chunk_size |-> c]

NoOffer == [filename |-> "", size |-> 0, total_chunks |-> 0, chunk_size |-> 0]

\* A transfers row that does not exist.
NoRow == [exists |-> FALSE, bytes_sent |-> 0, total_bytes |-> 0, completed |-> 0,
          error |-> "None", sha256 |-> -1, save_path |-> <<>>]

\* ------------------------------------------------------------------- state
VARIABLES
  srcFile,          \* content of the file being sent
  chunkSize,        \* Sender.chunk_size
  sPc,              \* position of the _bg_send thread
  sIdx,             \* index of the next chunk Sender.send writes
  handshake,        \* what the client has received as response to its Offer
  sentLog,          \* every chunk frame written to the connection, in order
  cbLog,            \* every progress_callback invocation <<idx, b>>, in order
  bytes_sent_local, \* _bg_send closure counter
  sendErrors,       \* exceptions Sender.send has raised to _bg_send
  sendRow,          \* transfers row of the send tid
  conn,             \* "none" | "open" | "dropped"
  offerMsg,         \* Offer in flight to the server (NoOffer: none)
  resp,             \* response in flight to the client: "none"|"accept"|"reject"
  wire,             \* chunk frames in flight, FIFO
  rState,           \* TransferSession state on the receive side
  decision,         \* handler decision: "none" | "accept" | "reject"
  rOffer,           \* the Offer the server read
  rTotal,           \* Receiver.total_chunks
  rIdx,             \* index of the next chunk the Receiver expects
  recvLog,          \* chunk indices the Receiver consumed, in order
  destFile,         \* content of the destination file
  destExists,       \* whether the destination file exists
  bytes_transferred,\* receive session counter
  diskFailed,       \* a disk write of the receive session has failed
  onStartLog,       \* every on_start(meta) invocation
  onCompleteLog,    \* every on_complete(meta) invocation
  recvRow,          \* transfers row of the receive tid
  TRANSFER_QUEUE,   \* deltas enqueued by enqueue_transfer_delta
  EVENT_QUEUE       \* events enqueued by enqueue_event

senderVars == <<sPc, sIdx, handshake, sentLog, cbLog, bytes_sent_local,
                sendErrors, sendRow, TRANSFER_QUEUE>>
netVars == <<conn, offerMsg, resp, wire>>
recvVars == <<rState, decision, rOffer, rTotal, rIdx, recvLog, destFile,
              destExists, bytes_transferred, diskFailed, onStartLog,
              onCompleteLog, recvRow, EVENT_QUEUE>>
vars == <<srcFile, chunkSize, senderVars, netVars, recvVars>>

\* Every variable of the transfer path but the two worker queues.
sessionVars == <<srcFile, chunkSize, sPc, sIdx, handshake, sentLog, cbLog,
                 bytes_sent_local, sendErrors, sendRow, netVars, rState,
                 decision, rOffer, rTotal, rIdx, recvLog, destFile, destExists,
                 bytes_transferred, diskFailed, onStartLog, onCompleteLog,
                 recvRow>>

\* --------------------------------------------- state of the peer registry
VARIABLES
  clock,            \* the time, in announce-interval ticks
  dPc,              \* position of discover_peers: "idle" | "sleeping" | "got"
  regLoop,          \* receive loop of the registry: "stopped"|"running"|"crashed"
  peerTable,        \* the PeerRecords the registry holds
  peersResult,      \* what the last get_peers() returned
  lastAnnounce,     \* per node, time and port of the last announce received
  malformedAt       \* time of the last malformed datagram received (-1: none)

regVars == <<clock, dPc, regLoop, peerTable, peersResult, lastAnnounce,
             malformedAt>>

\* ------------------------------------------ state of component lifecycles
VARIABLES
  comp,             \* per component: its state and that of its socket
  stopCalls,        \* per component: stop() calls made so far
  stopRaised        \* a stop() call has raised

lifeVars == <<comp, stopCalls, stopRaised>>

\* ---------------------------------------------- state of the receive mode
VARIABLES
  RECV_STATE,       \* RECV_STATE of scripts/ui.py: server and announcer held
  listening,        \* the ControlServer accepts connections
  sess,             \* per inbound connection: its TransferSession
  fs,               \* the out_dir: per path, whether a file exists and its chunks
  atStop            \* per session, its state when stop() was last called

srvVars == <<RECV_STATE, listening, sess, fs, atStop>>

\* ------------------------------------------- state of the event pipeline
VARIABLES
  eventsTable,        \* rows of the events table, in insertion order
  evEnqueued,         \* every event passed to enqueue_event, in order
  evUnfinished,       \* EVENT_QUEUE.unfinished_tasks
  evPc,               \* position of _event_worker
  evItem,             \* the item _event_worker is handling
  EVENT_COUNTS_CACHE, \* per tid, the cached count (-1: no entry)
  cPc,                \* position of an /events/counts request
  cTids,              \* tids the request asks for
  cMissing,           \* tids the request did not find in the cache
  cOut,               \* counts the request has collected (-1: none yet)
  cLow,               \* per tid, rows in the table when the request started
  page,               \* what the last /events request returned
  pageReq,            \* parameters of the last /events request
  pageToggle          \* a /events request has been answered

evVars == <<eventsTable, evEnqueued, evUnfinished, evPc, evItem,
            EVENT_COUNTS_CACHE, cPc, cTids, cMissing, cOut, cLow,
            page, pageReq, pageToggle>>

\* ------------------------------------------ state of the transfer worker
VARIABLES
  agg,                \* _transfer_worker: per tid, the delta not yet flushed
  twPc,               \* position of _transfer_worker: "run" | "stopped"
  rowBytes,           \* bytes_sent of the transfers row of the tid followed
  aEnqueued,          \* sum of the deltas enqueued for the tid followed
  aCount,             \* number of deltas enqueued for the tid followed
  twDbFailed,         \* an UPDATE of the worker has raised
  shutdownRequested   \* _shutdown_workers has been called

twVars == <<agg, twPc, rowBytes, aEnqueued, aCount, twDbFailed,
            shutdownRequested>>

\* ------------------------------------------------- state of POST /upload
VARIABLES
  upDir, \* the uploads directory: per path, whose content it holds (-1: no file)
  upPc, \* per upload request, its position in upload_file
  upPath, \* per upload request, its save_path
  upI  \* per upload request, its suffix counter i

upVars == <<upDir, upPc, upPath, upI>>

\* The five parts beside the transfer path.
coreAux == <<regVars, lifeVars, srvVars, evVars, twVars>>

\* ----------------------------------- state of the standalone file server
VARIABLES
  hsServing, \* main() has started the server
  hsPassword, \* UploadHTTPRequestHandler.password ("": none configured)
  hsReq, \* the request handled last
  hsStatus, \* the status it was answered with (0: no request yet)
  hsEffects  \* what the server did for it: listing, content, metadata, upload, download

hsVars == <<hsServing, hsPassword, hsReq, hsStatus, hsEffects>>

\* ------------------------- /start-recv and /stop-recv as request threads
VARIABLES
  rcPc, \* where each request thread is
  rcPort, \* the port a /start-recv request asks for
  rcSrv, \* the requests whose ControlServer is started and not stopped
  rcAnn  \* the requests whose DiscoveryAnnouncer is started and not stopped

rcVars == <<rcPc, rcPort, rcSrv, rcAnn>>

\* ---------------------------------- the dashboard paging through /events
VARIABLES
  pgPc, \* where loadEvents is: start, paging, end
  pgReq, \* limit and filters loadEvents sends
  pgMin, \* minEventId (0: null)
  pgSeen, \* the items received so far, in order
  pgFirst, \* the matching items the table held at the first request
  pgLive  \* an event was inserted between two page requests

pgVars == <<pgPc, pgReq, pgMin, pgSeen, pgFirst, pgLive>>

\* --------------------------------------- where the receive handlers save
VARIABLES
  phBy, \* the handler that ran last ("": none yet)
  phFilename, \* the filename of the Offer it was given
  phSavePath  \* the save path it handed to the Receiver

phVars == <<phBy, phFilename, phSavePath>>

\* ---------------- the upload filename sanitizer of the standalone server
VARIABLES
  snDone, \* an upload's filename has been sanitized
  snRaw, \* the filename the upload carried
  snOut  \* the name sanitize returned

snVars == <<snDone, snRaw, snOut>>

\* ---------------------- an upload being written by the standalone server
VARIABLES
  uwPc, \* where do_POST is: idle, writing, done
  uwSize, \* bytes of the uploaded file
  uwCap, \* MAX_UPLOAD_SIZE
  uwTotal, \* total: bytes written so far
  uwDest, \* the file at dest_path
  uwStatus, \* the status the request was answered with (0: not yet)
  uwFailed  \* opening, reading or writing raised

uwVars == <<uwPc, uwSize, uwCap, uwTotal, uwDest, uwStatus, uwFailed>>

\* ------------------------------- POST /download on the standalone server
VARIABLES
  dlDone, \* a /download request has been answered
  dlName, \* the file name it asked for
  dlSent  \* the files it was sent

dlVars == <<dlDone, dlName, dlSent>>

\* --------------------------------------------------------- POST /extract
VARIABLES
  exDone, \* an /extract request has been answered
  exPath, \* the path it carried
  exStatus, \* the status it was answered with
  exRead, \* the files it read or unpacked
  exRows  \* the transfers rows: save_path and extraction columns per tid

exVars == <<exDone, exPath, exStatus, exRead, exRows>>

\* --------------------------------------------- the upload cleanup worker
VARIABLES
  clNow, \* the clock (time.time())
  clDir, \* the entries of the upload directory: kind and mtime
  clStop, \* _upload_cleanup_stop is set
  clPc, \* where the worker is: check, pass, wait, stopped
  clPassNow, \* now, as read at the start of the pass
  clTodo, \* entries of the listing not yet examined
  clRemoved, \* entries the pass has removed
  clExpected  \* files of the listing older than the TTL at the start of the pass

clVars == <<clNow, clDir, clStop, clPc, clPassNow, clTodo, clRemoved, clExpected>>

\* The parts added to the five above.
extraVars == <<upVars, hsVars, rcVars, pgVars, phVars, snVars, uwVars, dlVars, exVars, clVars>>
\* Everything but one added part.
upSide == <<hsVars, rcVars, pgVars, phVars, snVars, uwVars, dlVars, exVars, clVars>>
upRest == <<vars, coreAux, upSide>>
hsSide == <<upVars, rcVars, pgVars, phVars, snVars, uwVars, dlVars, exVars, clVars>>
hsRest == <<vars, coreAux, hsSide>>
rcSide == <<upVars, hsVars, pgVars, phVars, snVars, uwVars, dlVars, exVars, clVars>>
rcRest == <<vars, coreAux, rcSide>>
pgSide == <<upVars, hsVars, rcVars, phVars, snVars, uwVars, dlVars, exVars, clVars>>
pgRest == <<vars, coreAux, pgSide>>
phSide == <<upVars, hsVars, rcVars, pgVars, snVars, uwVars, dlVars, exVars, clVars>>
phRest == <<vars, coreAux, phSide>>
snSide == <<upVars, hsVars, rcVars, pgVars, phVars, uwVars, dlVars, exVars, clVars>>
snRest == <<vars, coreAux, snSide>>
uwSide == <<upVars, hsVars, rcVars, pgVars, phVars, snVars, dlVars, exVars, clVars>>
uwRest == <<vars, coreAux, uwSide>>
dlSide == <<upVars, hsVars, rcVars, pgVars, phVars, snVars, uwVars, exVars, clVars>>
dlRest == <<vars, coreAux, dlSide>>
exSide == <<upVars, hsVars, rcVars, pgVars, phVars, snVars, uwVars, dlVars, clVars>>
exRest == <<vars, coreAux, exSide>>
clSide == <<upVars, hsVars, rcVars, pgVars, phVars, snVars, uwVars, dlVars, exVars>>
clRest == <<vars, coreAux, clSide>>

auxVars == <<regVars, lifeVars, srvVars, evVars, twVars, extraVars>>
\* Everything but the registry.
regRest == <<vars, lifeVars, srvVars, evVars, twVars, extraVars>>
\* Everything but the component lifecycles.
lifeRest == <<vars, regVars, srvVars, evVars, twVars, extraVars>>
\* Everything but the receive mode.
srvRest == <<vars, regVars, lifeVars, evVars, twVars, extraVars>>
\* Everything but the event pipeline and its queue.
evRest == <<sessionVars, TRANSFER_QUEUE, regVars, lifeVars, srvVars, twVars, extraVars>>
\* Everything but the transfer worker and its queue.
twRest == <<sessionVars, EVENT_QUEUE, regVars, lifeVars, srvVars, evVars, extraVars>>
allVars == <<vars, auxVars>>

\* The transfer path before anything has run.
SessionStart ==
  /\ sPc = "idle"
  /\ sIdx = 0
  /\ handshake = "none"
  /\ sentLog = <<>>
  /\ cbLog = <<>>
  /\ bytes_sent_local = 0
  /\ sendErrors = 0
  /\ sendRow = NoRow
  /\ conn = "none"
  /\ offerMsg = NoOffer
  /\ resp = "none"
  /\ wire = <<>>
  /\ rState = "None"
  /\ decision = "none"
  /\ rOffer = NoOffer
  /\ rTotal = 0
  /\ rIdx = 0
  /\ recvLog = <<>>
  /\ destFile = <<>>
  /\ destExists = FALSE
  /\ bytes_transferred = 0
  /\ diskFailed = FALSE
  /\ onStartLog = <<>>
  /\ onCompleteLog = <<>>
  /\ recvRow = NoRow
  /\ TRANSFER_QUEUE = <<>>
  /\ EVENT_QUEUE = <<>>

\* The transfer path at rest, with no file chosen.
SessionIdle ==
  /\ srcFile = <<>>
  /\ chunkSize = 1
  /\ SessionStart

\* ----------------------------------------------------------- peer registry
\* Last tick of the clock.
MaxTime == 5

\* Eviction window of the registry, in ticks: a peer whose last announce is
\* older is no longer reported (three announce intervals).
EvictionWindow == 3

\* The nodes that announce themselves, and the control ports they announce.
Nodes == {"n1", "n2"}
Ports == {7001, 7002}

\* Source address of a node's announces.
AddrOf(n) == IF n = "n1" THEN "10.0.0.1" ELSE "10.0.0.2"

\* Source identity of a PeerRecord: the key of the registry's table.
PeerKey(r) == <<r.name, r.addr>>

NoAnnounce == [at |-> -1, port |-> 0, again |-> FALSE]

\* The registry before a DiscoveryManager exists.
RegIdle ==
  /\ clock = 0
  /\ dPc = "idle"
  /\ regLoop = "stopped"
  /\ peerTable = {}
  /\ peersResult = {}
  /\ lastAnnounce = [n \in Nodes |-> NoAnnounce]
  /\ malformedAt = -1

\* --------------------------------------------------- component lifecycles
\* Most stop() calls made on one component.
MaxStops == 2

\* The components with a start()/stop() lifecycle.
Components == {"Announcer", "PeerRegistry", "ControlServer"}

\* A component as constructed: not started, no socket.
NewComponent == [state |-> "new", sock |-> "none"]

\* No component has been started or stopped.
LifeIdle ==
  /\ comp = [c \in Components |-> NewComponent]
  /\ stopCalls = [c \in Components |-> 0]
  /\ stopRaised = FALSE

\* ------------------------------------------------------------ receive mode
\* Most chunks of one inbound transfer.
MaxSessChunks == 2

\* The inbound connections, and the file names their Offers may carry.
Sessions == {1, 2}
FileNames == {"a.bin", "b.bin"}

\* A connection slot no client has connected on.
NoSession == [state |-> "None", filename |-> "", total |-> 0, idx |-> 0,
              path |-> <<>>]

\* The paths of the out_dir, and a path with no file.
Paths == {<<"received", f>> : f \in FileNames}
NoFile == [exists |-> FALSE, data |-> <<>>]

\* Receive mode never started.
SrvIdle ==
  /\ RECV_STATE = [server |-> "None", announcer |-> "None"]
  /\ listening = FALSE
  /\ sess = [s \in Sessions |-> NoSession]
  /\ fs = [q \in Paths |-> NoFile]
  /\ atStop = [s \in Sessions |-> "None"]

\* ---------------------------------------------------------- event pipeline
\* Most events passed to enqueue_event.
MaxEvents == 2
\* Most rows of the events table.
MaxRows == 3

\* The transfer ids, event names and meta strings events carry.
Tids == {"t1", "t2"}
EventNames == {"alpha", "beta"}
Metas == {"", "m"}

\* A request parameter that is absent or empty.
Absent == ""

NoItem == [tid |-> "", event |-> "", meta |-> ""]

\* The None _shutdown_workers puts on EVENT_QUEUE.
EventSentinel == [tid |-> "None", event |-> "None", meta |-> "None"]
NoRequest == [limit |-> 0, offset |-> <<>>, before |-> <<>>, tid |-> Absent,
              event |-> Absent]

\* Most rows the events table holds when the process starts.
MaxSeed == 1

\* A row of the events table (via: who inserted it).
EventRow(id, tid, event, meta, via) ==
  [id |-> id, tid |-> tid, event |-> event, meta |-> meta, via |-> via]

\* INSERT INTO events: the id is one more than the largest id in the table.
InsertEvent(table, tid, event, meta, via) ==
  Append(table, EventRow(Len(table) + 1, tid, event, meta, via))

\* The tables of exactly n rows written by earlier runs of the process.
RECURSIVE TablesOfLen(_)
TablesOfLen(n) ==
  IF n = 0 THEN {<<>>}
  ELSE {InsertEvent(tb, t, e, "", "earlier") :
          tb \in TablesOfLen(n - 1), t \in Tids, e \in EventNames}

\* SELECT COUNT(*) FROM events WHERE tid = t.
CountOf(table, t) == Cardinality({i \in 1..Len(table) : table[i].tid = t})

\* enqueue_event: put the event on the queue q.
\* (Faulty variant, for PersistedInEnqueueOrder: a LIFO queue.)
enqueue_event_lifo(q, tid, event_name, meta) ==
  <<[tid |-> tid, event |-> event_name, meta |-> meta]>> \o q

enqueue_event(q, tid, event_name, meta) ==
  Append(q, [tid |-> tid, event |-> event_name, meta |-> meta])

\* The event pipeline at import: idle worker, empty cache.
EvStart ==
  /\ evEnqueued = <<>>
  /\ evUnfinished = 0
  /\ evPc = "get"
  /\ evItem = NoItem
  /\ EVENT_COUNTS_CACHE = [t \in Tids |-> -1]
  /\ cPc = "idle"
  /\ cTids = {}
  /\ cMissing = {}
  /\ cOut = [t \in Tids |-> -1]
  /\ cLow = [t \in Tids |-> 0]
  /\ page = <<>>
  /\ pageReq = NoRequest
  /\ pageToggle = FALSE

\* The event pipeline at import on a fresh database.
EvIdle ==
  /\ eventsTable = <<>>
  /\ EvStart

\* --------------------------------------------------------- transfer worker
\* Most deltas enqueued for the tid followed, and most items on the queue.
MaxDeltas == 2
MaxQueue == 2

\* The immediate-flush threshold of _transfer_worker (1024*1024 bytes in the
\* code, scaled down), and the sizes a delta may have.
FlushThreshold == 3
Deltas == {1, 2, 3}

\* The tid whose transfers row is followed, and any other tid.
TwTids == {"a", "other"}

\* TRANSFER_SENTINEL = (None, None).
TRANSFER_SENTINEL == <<"None", 0>>

\* enqueue_transfer_delta: put (tid, delta) on the queue q.
enqueue_transfer_delta(q, tid, delta) == Append(q, <<tid, delta>>)

\* The transfer worker at import: nothing aggregated, the followed row at
\* bytes_sent = 0.
TwIdle ==
  /\ agg = [t \in TwTids |-> 0]
  /\ twPc = "run"
  /\ rowBytes = 0
  /\ aEnqueued = 0
  /\ aCount = 0
  /\ twDbFailed = FALSE
  /\ shutdownRequested = FALSE

\* ------------------------------------------------------------ POST /upload
\* Most concurrent upload requests.
MaxUploads == 3

\* The upload requests, and the (sanitized) file names they carry.
Uploads == 1..MaxUploads
UpNames == {"hello.txt", "notes.txt"}

\* The paths of the uploads directory: <<name, 0>> is uploads/name and
\* <<name, k>> is uploads/base-k.ext.
UpPaths == UpNames \X (0..(MaxUploads + 1))

\* No upload request has arrived; the directory holds nothing.
UpIdle ==
  /\ upDir = [q \in UpPaths |-> -1]
  /\ upPc = [u \in Uploads |-> "idle"]
  /\ upPath = [u \in Uploads |-> <<"", 0>>]
  /\ upI = [u \in Uploads |-> 1]

\* ---------------------------------------------------- standalone file server
\* The passwords --password may configure ("": the option is absent), and
\* the Authorization headers a request may carry ("none": no header).
HsPasswords == {"", "s3cret"}
HsAuthHeaders == {"none", "Bearer s3cret", "Bearer wrong", "s3cret",
                  "bearer s3cret", "Bearer s3cret "}

\* The methods and paths of a request.
HsMethods == {"GET", "HEAD", "POST", "PUT", "DELETE"}
HsPaths == {"/", "/report.pdf", "/download"}

NoHttpRequest == [method |-> "", path |-> "", auth |-> "none"]

\* quickshare.py before main() runs.
HsIdle ==
  /\ hsServing = FALSE
  /\ hsPassword = ""
  /\ hsReq = NoHttpRequest
  /\ hsStatus = 0
  /\ hsEffects = {}

\* ------------------------------------------ /start-recv, /stop-recv requests
\* The request threads, and the ports a /start-recv form may carry.
MaxRequests == 3
RcReqs == {ToString(i) : i \in 1..MaxRequests}
RcPorts == {60000, 60001}

\* No request yet, nothing started.
RcIdle ==
  /\ rcPc = [r \in RcReqs |-> "idle"]
  /\ rcPort = [r \in RcReqs |-> 0]
  /\ rcSrv = {}
  /\ rcAnn = {}

\* ------------------------------------------------- /events cursor paging
\* The page sizes loadEvents may use (EV_LIMIT).
MaxLimit == 2

\* The dashboard before its first loadEvents.
PgIdle ==
  /\ pgPc = "start"
  /\ pgReq = NoRequest
  /\ pgMin = 0
  /\ pgSeen = <<>>
  /\ pgFirst = {}
  /\ pgLive = FALSE

\* ------------------------------------------------- receive handlers: paths
\* A path is a record: abs tells whether it starts at the root, parts are
\* its components.  The longest filename an Offer carries, in components.
MaxParts == 3
PathParts == {"..", ".", "sub", "a.bin"}
RelPath(parts) == [abs |-> FALSE, parts |-> parts]
AbsPath(parts) == [abs |-> TRUE, parts |-> parts]

\* The filenames an Offer may carry.
OfferFilenames ==
  [abs : BOOLEAN, parts : UNION {[1..n -> PathParts] : n \in 1..MaxParts}]

\* The working directory of the process.
Cwd == AbsPath(<<"srv", "quickshare">>)

\* No handler has run yet.
PhIdle ==
  /\ phBy = ""
  /\ phFilename = RelPath(<<>>)
  /\ phSavePath = RelPath(<<>>)

\* ------------------------------------------- standalone server: sanitize
\* A name is a sequence of characters.  The longest filename an upload
\* carries, and the characters it is made of.
MaxName == 4
NameChars == {".", " ", "a", "/", "*"}
UploadNames == UNION {[1..n -> NameChars] : n \in 0..MaxName}

\* No upload yet.
SnIdle ==
  /\ snDone = FALSE
  /\ snRaw = <<>>
  /\ snOut = <<>>

\* --------------------------------------- standalone server: upload writing
\* The largest upload and the largest MAX_UPLOAD_SIZE, in bytes, and the
\* size of one read (64 * 1024 in the code, scaled down).
MaxBody == 6
MaxCap == 3
ReadSize == 2

\* No file at a path.
NoDest == [exists |-> FALSE, len |-> 0]

\* No upload yet.
UwIdle ==
  /\ uwPc = "idle"
  /\ uwSize = 0
  /\ uwCap = 0
  /\ uwTotal = 0
  /\ uwDest = NoDest
  /\ uwStatus = 0
  /\ uwFailed = FALSE

\* ------------------------------------------- standalone server: /download
\* The components of a requested name: a file a.bin lies in every
\* directory, and quickshare-old is a directory beside the served one.
DlParts == {"..", "a.bin", "srv", "quickshare-old"}
DownloadNames ==
  [abs : BOOLEAN, parts : UNION {[1..n -> DlParts] : n \in 1..MaxParts}]

\* No request yet.
DlIdle ==
  /\ dlDone = FALSE
  /\ dlName = RelPath(<<>>)
  /\ dlSent = {}

\* ------------------------------------------------------------- POST /extract
\* The components of a requested path: a file a.tar lies in every
\* directory, and received-old is a directory beside 'received'.
ExParts == {"..", "received", "received-old", "a.tar"}
ExtractPaths ==
  [abs : BOOLEAN, parts : UNION {[1..n -> ExParts] : n \in 1..MaxParts}]

\* The transfers rows when the request arrives: one receive saved in
\* 'received', one row with a save path in the directory beside it.
ExRowsAtStart ==
  [t \in {"t1", "t2"} |->
     [save_path |-> AbsPath(<<"srv", "quickshare",
                              IF t = "t1" THEN "received" ELSE "received-old",
                              "a.tar">>),
      extraction_path |-> RelPath(<<>>), extraction_ok |-> 0]]

\* No request yet.
ExIdle ==
  /\ exDone = FALSE
  /\ exPath = RelPath(<<>>)
  /\ exStatus = 0
  /\ exRead = {}
  /\ exRows = ExRowsAtStart

\* ---------------------------------------------------- upload cleanup worker
\* The clock runs to MaxClock; UPLOAD_TTL_SECONDS (24 * 3600 in the code,
\* scaled down).
MaxClock == 4
UPLOAD_TTL_SECONDS == 2

\* The names in the upload directory: two may be uploaded files, one is a
\* directory.
ClEntries == {"old.bin", "new.bin", "subdir"}
NoEntry == [kind |-> "none", mtime |-> 0]

\* The worker at import: the thread is about to test the stop event.
ClIdle ==
  /\ clNow = 0
  /\ clDir = [e \in ClEntries |->
                IF e = "subdir" THEN [kind |-> "dir", mtime |-> 0] ELSE NoEntry]
  /\ clStop = FALSE
  /\ clPc = "check"
  /\ clPassNow = 0
  /\ clTodo = {}
  /\ clRemoved = {}
  /\ clExpected = {}

\* The added parts at rest.
ExtraIdle ==
  /\ UpIdle
  /\ HsIdle
  /\ RcIdle
  /\ PgIdle
  /\ PhIdle
  /\ SnIdle
  /\ UwIdle
  /\ DlIdle
  /\ ExIdle
  /\ ClIdle

\* Everything outside the transfer path at rest.
AuxIdle ==
  /\ RegIdle
  /\ LifeIdle
  /\ SrvIdle
  /\ EvIdle
  /\ TwIdle
  /\ ExtraIdle

Init ==
  /\ srcFile \in Files
  /\ chunkSize \in 1..MaxChunk
  /\ SessionStart
  /\ AuxIdle

\* ------------------------------------------------- send side (scripts/ui.py)
\* _bg_send: the Sender is constructed and the progress row initialised.
BgSendInitRow(total) ==
  [exists |-> TRUE, bytes_sent |-> 0, total_bytes |-> total, completed |-> 0,
   error |-> "None", sha256 |-> -1, save_path |-> <<>>]

\* _bg_send, except branch: the error is recorded on the row of the tid (an
\* UPDATE, so it changes nothing when the row was never inserted).
\* (Faulty variant, for NoPartialSuccess: the failed send is also completed.)
BgSendRowCompletedOnError(row, e) ==
  IF row.exists THEN [row EXCEPT !.error = e, !.completed = 1] ELSE row

BgSendOnException(row, e) ==
  IF row.exists THEN [row EXCEPT !.error = e] ELSE row

\* _bg_send, after s.send returned: the row is marked completed.
BgSendOnSuccess(row) ==
  IF row.exists THEN [row EXCEPT !.completed = 1] ELSE row

\* The handshake function _bg_send hands to Sender.send.
\* (Faulty variant, for NoChunkBeforeAccept: no handshake function.)
HandshakeFnOmitted == "none"

HandshakeFn == "send_control_offer"

\* _cb: the local byte counter after a callback with b bytes.
\* (Faulty variant, for ProgressPerChunk: = in place of +=.)
CbOverwrite(local, b) == b

CbAccumulate(local, b) == local + b

\* Sender(file, chunk_size) raises when the file cannot be read; otherwise the
\* row is inserted with total_bytes = s.total_size.
BgSendStart ==
  /\ sPc = "idle"
  /\ \E readable \in BOOLEAN :
       IF readable
       THEN /\ sPc' = "constructed"
            /\ sendRow' = BgSendInitRow(Len(srcFile))
       ELSE /\ sPc' = "failed"
            /\ sendRow' = BgSendOnException(sendRow, "unreadable")
  /\ UNCHANGED <<auxVars, srcFile, chunkSize, sIdx, handshake, sentLog, cbLog,
                 bytes_sent_local, sendErrors, TRANSFER_QUEUE, netVars, recvVars>>

\* Sender.send raises e: _bg_send's except branch records it; the client side
\* of the connection is closed.
SenderRaise(e) ==
  /\ sPc' = "failed"
  /\ sendErrors' = sendErrors + 1
  /\ sendRow' = BgSendOnException(sendRow, e)

\* Sender.send, first step: handshake_fn opens the connection and writes the
\* Offer; a refused connection raises.  Without a handshake function the
\* sender goes on to the chunks at once.
SendOffer ==
  /\ sPc = "constructed"
  /\ \E refused \in BOOLEAN :
       IF refused
       THEN /\ SenderRaise("refused")
            /\ UNCHANGED <<conn, offerMsg>>
       ELSE /\ conn' = "open"
            /\ offerMsg' = OfferOf(srcFile, chunkSize)
            /\ sPc' = IF HandshakeFn = "send_control_offer"
                      THEN "awaiting" ELSE "sending"
            /\ UNCHANGED <<sendErrors, sendRow>>
  /\ UNCHANGED <<auxVars, srcFile, chunkSize, sIdx, handshake, sentLog, cbLog,
                 bytes_sent_local, TRANSFER_QUEUE, resp, wire, recvVars>>

\* send_control_offer: the response arrives.
HandshakeResponse ==
  /\ sPc = "awaiting"
  /\ resp # "none"
  /\ handshake' = resp
  /\ resp' = "none"
  /\ IF resp = "accept"
     THEN /\ sPc' = "sending"
          /\ UNCHANGED <<sendErrors, sendRow>>
     ELSE SenderRaise("rejected")
  /\ UNCHANGED <<auxVars, srcFile, chunkSize, sIdx, sentLog, cbLog, bytes_sent_local,
                 TRANSFER_QUEUE, conn, offerMsg, wire, recvVars>>

\* send_control_offer: the wait for the response ends without one, because
\* the bounded wait ran out or because the connection failed.
HandshakeFails ==
  /\ sPc = "awaiting"
  /\ \E why \in {"timeout", "connection"} :
       /\ why = "connection" => conn = "dropped"
       /\ SenderRaise(why)
  /\ UNCHANGED <<auxVars, srcFile, chunkSize, sIdx, handshake, sentLog, cbLog,
                 bytes_sent_local, TRANSFER_QUEUE, netVars, recvVars>>

\* The sequence index Sender.send gives to its i-th chunk (0-based).
\* (Faulty variant, for ChunksInOrder: indices counted from 1.)
FrameIndexOneBased(i) == i + 1

FrameIndex(i) == i

\* Sender.send, per chunk: read the next chunk_size piece of the source and
\* write it with its index onto the connection.
SendChunkWrite ==
  /\ sPc = "sending"
  /\ sIdx < TotalChunks(Len(srcFile), chunkSize)
  /\ \E readable \in BOOLEAN :
       IF ~readable
       THEN /\ SenderRaise("unreadable")
            /\ UNCHANGED <<sentLog, wire>>
       ELSE IF conn # "open"
       THEN /\ SenderRaise("connection")
            /\ UNCHANGED <<sentLog, wire>>
       ELSE LET frame == [index |-> FrameIndex(sIdx),
                          payload |-> ChunkOf(srcFile, sIdx, chunkSize)]
            IN /\ sentLog' = Append(sentLog, frame)
               /\ wire' = Append(wire, frame)
               /\ sPc' = "callback"
               /\ UNCHANGED <<sendErrors, sendRow>>
  /\ UNCHANGED <<auxVars, srcFile, chunkSize, sIdx, handshake, cbLog, bytes_sent_local,
                 TRANSFER_QUEUE, conn, offerMsg, resp, recvVars>>

\* Sender.send calls progress_callback(index, bytes_in_chunk) = _cb after the
\* write: _cb adds to the local counter and enqueues the delta.
ProgressCallback ==
  /\ sPc = "callback"
  /\ LET b == Len(ChunkOf(srcFile, sIdx, chunkSize))
     IN /\ bytes_sent_local' = CbAccumulate(bytes_sent_local, b)
        /\ cbLog' = Append(cbLog, <<FrameIndex(sIdx), b>>)
        /\ TRANSFER_QUEUE' = enqueue_transfer_delta(TRANSFER_QUEUE, "send", b)
  /\ sIdx' = sIdx + 1
  /\ sPc' = "sending"
  /\ UNCHANGED <<auxVars, srcFile, chunkSize, handshake, sentLog, sendErrors, sendRow,
                 netVars, recvVars>>

\* Sender.send returns after the last chunk; _bg_send marks the row completed.
SendFinish ==
  /\ sPc = "sending"
  /\ sIdx = TotalChunks(Len(srcFile), chunkSize)
  /\ sPc' = "done"
  /\ sendRow' = BgSendOnSuccess(sendRow)
  /\ UNCHANGED <<auxVars, srcFile, chunkSize, sIdx, handshake, sentLog, cbLog,
                 bytes_sent_local, sendErrors, TRANSFER_QUEUE, netVars, recvVars>>

\* ---------------------------------------------------------------- network
\* The connection fails: what is in flight is lost.
ConnDrop ==
  /\ conn = "open"
  /\ conn' = "dropped"
  /\ offerMsg' = NoOffer
  /\ resp' = "none"
  /\ wire' = <<>>
  /\ UNCHANGED <<auxVars, srcFile, chunkSize, senderVars, recvVars>>

\* ------------------------------------------- receive side (scripts/ui.py)
\* ControlServer, per connection: read exactly one Offer; the session is
\* Pending until the handler has decided.
ServerReadOffer ==
  /\ rState = "None"
  /\ decision = "none"
  /\ offerMsg # NoOffer
  /\ rState' = "Pending"
  /\ rOffer' = offerMsg
  /\ offerMsg' = NoOffer
  /\ UNCHANGED <<auxVars, srcFile, chunkSize, senderVars, conn, resp, wire, decision,
                 rTotal, rIdx, recvLog, destFile, destExists, bytes_transferred,
                 diskFailed, onStartLog, onCompleteLog, recvRow, EVENT_QUEUE>>

\* make_handler: where the file is saved and how many chunks are expected.
HandlerSavePath(offer) == <<"received", offer.filename>>

\* (Faulty variant, for RoundTrip and ReceiveCompletes: the default of
\* offer.get('total_chunks', 1) whatever the Offer declares.)
HandlerTotalChunksDefault(offer) == 1

HandlerTotalChunks(offer) == offer.total_chunks

\* make_handler: the hooks the Receiver is constructed with.
\* (Faulty variants, for OnStartFirst and FailureCleansUp: a hook not passed.)
HandlerHooksNoStart == {"on_complete"}

HandlerHooksNoComplete == {"on_start"}

HandlerHooks == {"on_start", "on_complete"}

\* make_handler.on_start: the progress row of the receive tid.
OnStartRow(meta) ==
  [exists |-> TRUE, bytes_sent |-> 0, total_bytes |-> meta.size, completed |-> 0,
   error |-> "None", sha256 |-> -1, save_path |-> meta.save_path]

\* make_handler.on_complete: the row is marked completed with the digest and
\* the save path of the metadata.
OnCompleteRow(row, meta) ==
  IF row.exists
  THEN [row EXCEPT !.completed = 1, !.sha256 = meta.sha256,
                   !.save_path = meta.save_path]
  ELSE row

\* ControlServer drives the receive path for a decision d of the handler.
\* (Faulty variant, for RejectionShortCircuits and SessionStateMachine: the
\* receive path is driven whatever the handler decided.)
ServerDrivesAlways(d) == TRUE

ServerDrives(d) == d = "accept"

\* The Receiver invokes on_complete(meta): make_handler.on_complete updates
\* the row and enqueues the event.  (Its socketio.emit keeps no state, and its
\* auto-extract step writes only the extraction columns and directory.)
OnComplete(meta) ==
  IF "on_complete" \in HandlerHooks
  THEN /\ onCompleteLog' = Append(onCompleteLog, meta)
       /\ recvRow' = OnCompleteRow(recvRow, meta)
       /\ EVENT_QUEUE' = enqueue_event(EVENT_QUEUE, "recv", "receiver_completed", "")
  ELSE UNCHANGED <<onCompleteLog, recvRow, EVENT_QUEUE>>

\* The Receiver invokes on_start(meta): make_handler.on_start inserts the row
\* and enqueues the event.
OnStart(meta) ==
  IF "on_start" \in HandlerHooks
  THEN /\ onStartLog' = Append(onStartLog, meta)
       /\ recvRow' = OnStartRow(meta)
       /\ EVENT_QUEUE' = enqueue_event(EVENT_QUEUE, "recv", "receiver_started", "")
  ELSE UNCHANGED <<onStartLog, recvRow, EVENT_QUEUE>>

\* The handler runs: make_handler raises (os.makedirs fails) and the server
\* answers with a reject, or it builds the Receiver and calls
\* handle_offer_and_receive, which invokes on_start.
Handler ==
  /\ rState = "Pending"
  /\ \E raises \in BOOLEAN :
       IF raises
       THEN /\ decision' = "reject"
            /\ rState' = IF ServerDrives("reject") THEN "Accepted" ELSE "None"
            /\ resp' = IF conn = "open" THEN "reject" ELSE resp
            /\ UNCHANGED <<rTotal, onStartLog, recvRow, EVENT_QUEUE>>
       ELSE LET meta == [filename |-> rOffer.filename, size |-> rOffer.size,
                         save_path |-> HandlerSavePath(rOffer)]
            IN /\ decision' = "accept"
               /\ rState' = "Accepted"
               /\ rTotal' = HandlerTotalChunks(rOffer)
               /\ OnStart(meta)
               /\ UNCHANGED resp
  /\ UNCHANGED <<auxVars, srcFile, chunkSize, senderVars, conn, offerMsg, wire, rOffer,
                 rIdx, recvLog, destFile, destExists, bytes_transferred,
                 diskFailed, onCompleteLog>>

\* ControlServer: the accept response is written and the receive path starts
\* on the same connection; the staging file is opened.
AcceptRespond ==
  /\ rState = "Accepted"
  /\ rState' = "Transferring"
  /\ resp' = IF conn = "open" /\ decision = "accept" THEN "accept" ELSE resp
  /\ destExists' = TRUE
  /\ UNCHANGED <<auxVars, srcFile, chunkSize, senderVars, conn, offerMsg, wire, decision,
                 rOffer, rTotal, rIdx, recvLog, destFile, bytes_transferred,
                 diskFailed, onStartLog, onCompleteLog, recvRow, EVENT_QUEUE>>

\* Receiver: the session is aborted; partial output is removed and
\* on_complete is invoked with a failure indication.
ReceiverAbort ==
  /\ rState' = "Failed"
  /\ destExists' = FALSE
  /\ destFile' = <<>>
  /\ OnComplete([save_path |-> HandlerSavePath(rOffer), sha256 |-> -1,
                 ok |-> FALSE])

\* Receiver: read the next chunk frame and append it to the destination.  A
\* frame whose index is not the next one expected is a protocol error; the
\* disk write may fail.
RecvChunk ==
  /\ rState = "Transferring"
  /\ rIdx < rTotal
  /\ wire # <<>>
  /\ wire' = Tail(wire)
  /\ \E diskOk \in BOOLEAN :
       LET frame == Head(wire)
       IN IF diskOk /\ frame.index = rIdx
          THEN /\ destFile' = destFile \o frame.payload
               /\ bytes_transferred' = bytes_transferred + Len(frame.payload)
               /\ recvLog' = Append(recvLog, frame.index)
               /\ rIdx' = rIdx + 1
               /\ UNCHANGED <<rState, destExists, diskFailed, onCompleteLog,
                              recvRow, EVENT_QUEUE>>
          ELSE /\ ReceiverAbort
               /\ diskFailed' = (diskFailed \/ ~diskOk)
               /\ UNCHANGED <<bytes_transferred, recvLog, rIdx>>
  /\ UNCHANGED <<auxVars, srcFile, chunkSize, senderVars, conn, offerMsg, resp, decision,
                 rOffer, rTotal, onStartLog>>

\* Receiver: the read of the next frame fails, because the connection was
\* reset or because the peer closed it before the declared chunks were sent.
RecvSocketFail ==
  /\ rState = "Transferring"
  /\ rIdx < rTotal
  /\ wire = <<>>
  /\ conn = "dropped" \/ sPc \in {"done", "failed"}
  /\ ReceiverAbort
  /\ UNCHANGED <<auxVars, srcFile, chunkSize, senderVars, netVars, decision, rOffer,
                 rTotal, rIdx, recvLog, bytes_transferred, diskFailed, onStartLog>>

\* ok of the completion metadata: the byte count matches the declared size.
ReceiverOk(n, offer) == n = offer.size

\* Receiver: the declared number of chunks was received; the digest of the
\* assembled file is computed and on_complete is invoked.
RecvComplete ==
  /\ rState = "Transferring"
  /\ rIdx = rTotal
  /\ IF ReceiverOk(bytes_transferred, rOffer)
     THEN /\ rState' = "Completed"
          /\ OnComplete([save_path |-> HandlerSavePath(rOffer),
                         sha256 |-> sha256_file(destFile), ok |-> TRUE])
          /\ UNCHANGED <<destFile, destExists>>
     ELSE ReceiverAbort
  /\ UNCHANGED <<auxVars, srcFile, chunkSize, senderVars, netVars, decision, rOffer,
                 rTotal, rIdx, recvLog, bytes_transferred, diskFailed, onStartLog>>

Next ==
  \/ BgSendStart
  \/ SendOffer
  \/ HandshakeResponse
  \/ HandshakeFails
  \/ SendChunkWrite
  \/ ProgressCallback
  \/ SendFinish
  \/ ConnDrop
  \/ ServerReadOffer
  \/ Handler
  \/ AcceptRespond
  \/ RecvChunk
  \/ RecvSocketFail
  \/ RecvComplete

Spec == Init /\ [][Next]_vars

\* The thread ControlServer runs for the accepted connection: it is scheduled
\* like every running thread, so a step of it that stays possible is taken.
ReceiverThread ==
  ServerReadOffer \/ Handler \/ AcceptRespond \/ RecvChunk \/ RecvSocketFail
    \/ RecvComplete

FairSpec == Spec /\ WF_vars(ReceiverThread)

\* ------------------------------------------------------------------ claims
NChunks == TotalChunks(Len(srcFile), chunkSize)

NoChunkBeforeAccept ==
  /\ (sentLog # <<>> \/ sPc \in {"sending", "callback", "done"}) =>
       handshake = "accept"
  /\ handshake = "accept" => decision = "accept"
  /\ (sPc = "failed" /\ handshake # "accept") => sentLog = <<>>

\* The offer was rejected and the send failed without a chunk written.
NoChunkBeforeAcceptWitness ==
  /\ sPc = "failed" /\ handshake = "reject" /\ sendErrors = 1
  /\ sentLog = <<>> /\ Len(srcFile) > 0

\* C3: once the handler has rejected the Offer, the destination holds no
\* chunk data (it does not even exist), no chunk was consumed and on_complete
\* was never invoked with ok = true.
RejectionShortCircuits ==
  decision = "reject" =>
    /\ ~destExists
    /\ destFile = <<>>
    /\ recvLog = <<>>
    /\ bytes_transferred = 0
    /\ \A i \in 1..Len(onCompleteLog) : ~onCompleteLog[i].ok

\* The handler rejected and the sender has seen the rejection.
RejectionWitness ==
  decision = "reject" /\ handshake = "reject" /\ sPc = "failed"

\* C4: the indices of the chunk frames written by the sender, and the indices
\* consumed by the receiver, are each 0, 1, 2, ... with no gap or repeat.
ChunksInOrder ==
  /\ \A i \in 1..Len(sentLog) : sentLog[i].index = i - 1
  /\ \A i \in 1..Len(recvLog) : recvLog[i] = i - 1
  /\ Len(recvLog) <= Len(sentLog)

\* Three chunks were written and consumed.
ChunksInOrderWitness == Len(sentLog) = 3 /\ Len(recvLog) = 3

\* C5: the progress callback runs once per chunk, after the chunk was written
\* and before the next one is, with the chunk's index and length; after a
\* successful send the bytes it reported add up to the size of the file.
ProgressPerChunk ==
  /\ Len(cbLog) = IF sPc = "callback" THEN Len(sentLog) - 1 ELSE Len(sentLog)
  /\ \A i \in 1..Len(cbLog) :
       cbLog[i] = <<sentLog[i].index, Len(sentLog[i].payload)>>
  /\ Len(TRANSFER_QUEUE) = Len(cbLog)
  /\ sPc = "done" =>
       /\ Len(cbLog) = NChunks
       /\ bytes_sent_local = Len(srcFile)
       /\ bytes_sent_local = sendRow.total_bytes

\* A send of 3 bytes in 2 chunks has returned.
ProgressWitness ==
  sPc = "done" /\ Len(srcFile) = 3 /\ Len(cbLog) = 2 /\ bytes_sent_local = 3

\* What C6 says of every state: on_complete is invoked at most once; a
\* session that consumed all declared chunks and ended is Completed, with
\* one on_complete, ok = true, and the declared total size transferred.
ReceiveCompletesInv ==
  /\ Len(onCompleteLog) <= 1
  /\ (decision = "accept" /\ rState \in {"Completed", "Failed"}
        /\ Len(recvLog) = rOffer.total_chunks) =>
       /\ rState = "Completed"
       /\ Len(onCompleteLog) = 1
       /\ onCompleteLog[1].ok
       /\ bytes_transferred = rOffer.size
  /\ rState = "Completed" => Len(recvLog) = rOffer.total_chunks

FailureCleansUpInv ==
  rState = "Failed" =>
    /\ ~destExists
    /\ destFile = <<>>
    /\ Len(onCompleteLog) = 1
    /\ ~onCompleteLog[1].ok

\* The connection of an accepted session has failed and chunks are missing.
ConnFailedMidReceive ==
  /\ rState \in {"Accepted", "Transferring"}
  /\ decision = "accept"
  /\ conn = "dropped"
  /\ rIdx < rTotal

\* C7: a session that failed has no output file left and has invoked
\* on_complete exactly once, with ok = false; and once the connection of an
\* accepted session has failed before its last chunk was processed, the
\* session reaches Failed with the hook invoked.
FailureCleansUp ==
  /\ []FailureCleansUpInv
  /\ (ConnFailedMidReceive ~> (rState = "Failed" /\ Len(onCompleteLog) = 1))

\* A session failed after it had written a chunk; a disk write failed.
FailureWitness ==
  /\ rState = "Failed" /\ Len(recvLog) >= 1 /\ diskFailed
  /\ Len(onCompleteLog) = 1 /\ ~destExists

\* C8: whenever the destination exists or holds a byte, or on_complete was
\* invoked, on_start has been invoked exactly once before, with the filename,
\* the size and the save path of the Offer.
OnStartFirst ==
  (destExists \/ destFile # <<>> \/ bytes_transferred > 0
     \/ recvLog # <<>> \/ onCompleteLog # <<>>) =>
    /\ Len(onStartLog) = 1
    /\ onStartLog[1] = [filename |-> rOffer.filename, size |-> rOffer.size,
                        save_path |-> HandlerSavePath(rOffer)]
    /\ recvRow.exists

\* The first chunk is written, on_complete is still to come, and on_start
\* was invoked.
OnStartFirstWitness ==
  /\ Len(onStartLog) = 1 /\ rState = "Transferring" /\ Len(destFile) = 1
  /\ rOffer.size > 1 /\ onCompleteLog = <<>>

\* The moves of a session; a rejected Pending session is discarded.
SessionMoves ==
  {<<"None", "Pending">>, <<"Pending", "Accepted">>, <<"Pending", "None">>,
   <<"Accepted", "Transferring">>, <<"Transferring", "Completed">>,
   <<"Transferring", "Failed">>}

\* C9: a session moves only None -> Pending -> Accepted -> Transferring ->
\* Completed | Failed (a rejected Pending session is discarded); it is
\* Accepted or later only on an accept decision of the handler; chunks are
\* processed only in Transferring; Completed and Failed are final.
SessionStateMachine ==
  /\ [](rState \in {"Accepted", "Transferring", "Completed", "Failed"}
          => decision = "accept")
  /\ [][rState' # rState => <<rState, rState'>> \in SessionMoves]_vars
  /\ [][(recvLog' # recvLog \/ bytes_transferred' # bytes_transferred
           \/ rIdx' # rIdx) => (rState = "Transferring" /\ rIdx < rTotal)]_vars
  /\ [][(rState \in {"Completed", "Failed"}) => (UNCHANGED recvVars)]_vars

\* A session went through Transferring, consumed chunks and completed.
SessionWitness == rState = "Completed" /\ Len(recvLog) >= 2

\* C10: Sender.send raises at most once, and then the send is over; a send
\* that failed (rejected handshake, dropped connection, unreadable source,
\* refused connection, timeout) is recorded with its error and never as
\* completed; a row is completed only after every chunk was written.
NoPartialSuccess ==
  /\ sendErrors <= 1
  /\ sendErrors = 1 => sPc = "failed"
  /\ (sPc = "failed" /\ sendRow.exists) =>
       /\ sendErrors = 1
       /\ sendRow.completed = 0
       /\ sendRow.error # "None"
  /\ sendRow.completed = 1 =>
       /\ sPc = "done"
       /\ handshake = "accept"
       /\ Len(sentLog) = NChunks
       /\ sendRow.error = "None"

\* The connection dropped in mid-stream: one chunk was written, the send failed.
NoPartialSuccessWitness ==
  /\ sPc = "failed" /\ sendRow.error = "connection"
  /\ Len(sentLog) = 1 /\ NChunks >= 2 /\ sendErrors = 1

\* ======================================================== the peer registry
\* Everything at rest: the start of the specifications below.
AllIdle == SessionIdle /\ AuxIdle

\* PeerRegistry.get_peers(): the records heard within the eviction window,
\* without their timestamps.
\* (Faulty variant, for EvictionAtRead: every record ever heard is reported.)
get_peersUnfiltered(table, now) ==
  {[name |-> r.name, addr |-> r.addr, port |-> r.port] : r \in table}

get_peers(table, now) ==
  {[name |-> r.name, addr |-> r.addr, port |-> r.port] :
     r \in {x \in table : now - x.last_seen <= EvictionWindow}}

\* The registry records an announce: insert, or replace the record of the
\* same source identity.
\* (Faulty variant, for OneRecordPerIdentity: the record is added next to
\* the ones already held.)
UpsertAppend(table, rec) == table \cup {rec}

Upsert(table, rec) ==
  {r \in table : PeerKey(r) # PeerKey(rec)} \cup {rec}

\* State of the receive loop after it met a datagram it cannot parse.
\* (Faulty variant, for MalformedDropped: the parse error ends the loop.)
LoopCrashesOnMalformed == "crashed"

LoopAfterMalformed == "running"

\* discover_peers: build a DiscoveryManager and start it.
DiscoverStart ==
  /\ dPc = "idle"
  /\ dPc' = "sleeping"
  /\ regLoop' = "running"
  /\ peerTable' = {}
  /\ lastAnnounce' = [n \in Nodes |-> NoAnnounce]
  /\ malformedAt' = -1
  /\ UNCHANGED <<clock, peersResult, regRest>>

\* discover_peers: after the sleep, return mgr.get_peers().
DiscoverGetPeers ==
  /\ dPc = "sleeping"
  /\ dPc' = "got"
  /\ peersResult' = get_peers(peerTable, clock)
  /\ UNCHANGED <<clock, regLoop, peerTable, lastAnnounce, malformedAt, regRest>>

\* discover_peers: finally mgr.stop().
DiscoverStop ==
  /\ dPc = "got"
  /\ dPc' = "idle"
  /\ regLoop' = "stopped"
  /\ UNCHANGED <<clock, peerTable, peersResult, lastAnnounce, malformedAt,
                 regRest>>

\* The receive loop reads a well-formed announce of node n for port p.
RegRecvAnnounce ==
  /\ regLoop = "running"
  /\ \E n \in Nodes, p \in Ports :
       /\ peerTable' = Upsert(peerTable, [name |-> n, addr |-> AddrOf(n),
                                          port |-> p, last_seen |-> clock])
       /\ lastAnnounce' = [lastAnnounce EXCEPT
                             ![n] = [at |-> clock, port |-> p,
                                     again |-> lastAnnounce[n].at >= 0]]
  /\ UNCHANGED <<clock, dPc, regLoop, peersResult, malformedAt, regRest>>

\* The receive loop reads a datagram that is not a well-formed announce.
RegRecvMalformed ==
  /\ regLoop = "running"
  /\ malformedAt' = clock
  /\ regLoop' = LoopAfterMalformed
  /\ UNCHANGED <<clock, dPc, peerTable, peersResult, lastAnnounce, regRest>>

\* Time passes.
RegTick ==
  /\ clock < MaxTime
  /\ clock' = clock + 1
  /\ UNCHANGED <<dPc, regLoop, peerTable, peersResult, lastAnnounce,
                 malformedAt, regRest>>

RegNext ==
  \/ DiscoverStart
  \/ DiscoverGetPeers
  \/ DiscoverStop
  \/ RegRecvAnnounce
  \/ RegRecvMalformed
  \/ RegTick

RegistrySpec == AllIdle /\ [][RegNext]_allVars

\* The peers get_peers() has to report at time now: those whose last
\* received announce is at most EvictionWindow old, with the port of that
\* announce.
PeersWithinWindow(now) ==
  {[name |-> n, addr |-> AddrOf(n), port |-> lastAnnounce[n].port] :
     n \in {m \in Nodes : /\ lastAnnounce[m].at >= 0
                          /\ now - lastAnnounce[m].at <= EvictionWindow}}

\* C11: every get_peers() call returns exactly the peers whose last announce
\* is within the eviction window, with the metadata of that announce.
EvictionAtRead ==
  [][(dPc = "sleeping" /\ dPc' = "got") => peersResult' = PeersWithinWindow(clock)]_allVars

\* get_peers() has just reported one peer and left out another one, heard
\* longer ago than the eviction window.
EvictionAtReadWitness ==
  /\ dPc = "got"
  /\ peersResult = PeersWithinWindow(clock)
  /\ \E n \in Nodes : /\ lastAnnounce[n].at >= 0
                      /\ clock - lastAnnounce[n].at > EvictionWindow
                      /\ \A r \in peersResult : r.name # n
  /\ \E m \in Nodes : /\ lastAnnounce[m].again
                      /\ \E r \in peersResult : r.name = m

\* The records the table holds for node n.
RecordsOf(n) == {r \in peerTable : PeerKey(r) = <<n, AddrOf(n)>>}

\* C15: however often an identity announces, the table holds one record for
\* it, and that record carries the time and the port of its latest announce.
OneRecordPerIdentity ==
  \A n \in Nodes :
    IF lastAnnounce[n].at < 0
    THEN RecordsOf(n) = {}
    ELSE RecordsOf(n) = {[name |-> n, addr |-> AddrOf(n),
                          port |-> lastAnnounce[n].port,
                          last_seen |-> lastAnnounce[n].at]}

\* A node has announced again, later and for another port, and the table
\* holds its single, refreshed record.
OneRecordPerIdentityWitness ==
  \E n \in Nodes :
    /\ lastAnnounce[n].again
    /\ lastAnnounce[n].at > 0
    /\ lastAnnounce[n].port = 7002
    /\ Cardinality(RecordsOf(n)) = 1
    /\ \A r \in RecordsOf(n) : r.last_seen = lastAnnounce[n].at

\* While discover_peers holds a started manager, a malformed datagram has
\* not ended its receive loop.
LoopSurvivesMalformed ==
  (malformedAt >= 0 /\ dPc \in {"sleeping", "got"}) => regLoop = "running"

\* C16: a malformed datagram leaves the peer table as it is and the receive
\* loop running, so that later valid announces are still recorded.
MalformedDropped ==
  /\ []LoopSurvivesMalformed
  /\ [][(malformedAt' # malformedAt /\ malformedAt' >= 0)
          => (peerTable' = peerTable /\ regLoop' = "running")]_allVars

\* A valid announce has been recorded after a malformed datagram.
MalformedDroppedWitness ==
  /\ malformedAt >= 0
  /\ regLoop = "running"
  /\ \E r \in peerTable : r.last_seen > malformedAt

\* ==================================================== component lifecycles
\* start(): binds the socket and starts the background loop.
StartOf(k) == [state |-> "running", sock |-> "bound"]

\* Whether stop() raises on a component in state k.
\* (Faulty variant, for IdempotentStop: stop() joins a loop thread that
\* exists only while the component runs.)
StopRaisesUnlessRunning(k) == k.state # "running"

StopRaises(k) == FALSE

\* stop(): signals the loop to exit, joins it and releases the socket.
StopOf(k) ==
  [state |-> "stopped", sock |-> IF k.sock = "bound" THEN "released" ELSE k.sock]

\* start() on a component that was never started.
CompStart ==
  \E c \in Components :
    /\ comp[c].state = "new"
    /\ comp' = [comp EXCEPT ![c] = StartOf(comp[c])]
    /\ UNCHANGED <<stopCalls, stopRaised, lifeRest>>

\* stop() on a component, whatever its state.
CompStop ==
  \E c \in Components :
    /\ stopCalls[c] < MaxStops
    /\ stopCalls' = [stopCalls EXCEPT ![c] = stopCalls[c] + 1]
    /\ IF StopRaises(comp[c])
       THEN /\ stopRaised' = TRUE
            /\ UNCHANGED comp
       ELSE /\ comp' = [comp EXCEPT ![c] = StopOf(comp[c])]
            /\ UNCHANGED stopRaised
    /\ UNCHANGED lifeRest

LifeNext ==
  \/ CompStart
  \/ CompStop

LifecycleSpec == AllIdle /\ [][LifeNext]_allVars

\* C12: stop() never raises, and a component on which stop() has been called
\* (once, repeatedly, or without start()) is stopped and holds no socket.
IdempotentStop ==
  /\ ~stopRaised
  /\ \A c \in Components :
       stopCalls[c] > 0 => (comp[c].state = "stopped" /\ comp[c].sock # "bound")

\* One component was stopped twice after running, another was stopped without
\* ever being started, a third was stopped once.
IdempotentStopWitness ==
  /\ stopCalls["ControlServer"] = 2
  /\ comp["ControlServer"].sock = "released"
  /\ stopCalls["Announcer"] = 1
  /\ comp["Announcer"].sock = "none"
  /\ stopCalls["PeerRegistry"] = 1
  /\ comp["PeerRegistry"].sock = "released"

\* ============================================================ receive mode
\* What ControlServer.stop() does to the sessions of its connections.
\* (Faulty variant, for StopLeavesSessions: stop() aborts what is in
\* progress.)
ServerStopAborts(ss) ==
  [s \in Sessions |->
     IF ss[s].state \in {"Pending", "Transferring"}
     THEN [ss[s] EXCEPT !.state = "Failed"]
     ELSE ss[s]]

ServerStopSessions(ss) == ss

\* start_recv: unless a server is held, start a ControlServer and an
\* announcer and keep them in RECV_STATE.
StartRecv ==
  /\ RECV_STATE.server = "None"
  /\ RECV_STATE' = [server |-> "srv", announcer |-> "ann"]
  /\ listening' = TRUE
  /\ UNCHANGED <<sess, fs, atStop, srvRest>>

\* stop_recv: stop the announcer and the server held, and forget them.
StopRecv ==
  /\ IF RECV_STATE.server # "None"
     THEN /\ listening' = FALSE
          /\ sess' = ServerStopSessions(sess)
          /\ atStop' = [s \in Sessions |-> sess[s].state]
     ELSE UNCHANGED <<listening, sess, atStop>>
  /\ RECV_STATE' = [server |-> "None", announcer |-> "None"]
  /\ UNCHANGED <<fs, srvRest>>

\* The server accepts a connection and reads its Offer: file name f, n chunks.
SessConnect(s) ==
  /\ listening
  /\ sess[s].state = "None"
  /\ \E f \in FileNames, n \in 1..MaxSessChunks :
       sess' = [sess EXCEPT ![s] = [state |-> "Pending", filename |-> f,
                                     total |-> n, idx |-> 0, path |-> <<>>]]
  /\ UNCHANGED <<RECV_STATE, listening, fs, atStop, srvRest>>

\* The connection's thread runs make_handler: it raises and the Offer is
\* rejected, or the Receiver is built on save_path and opens it for writing.
SessHandler(s) ==
  /\ sess[s].state = "Pending"
  /\ \E raises \in BOOLEAN :
       IF raises
       THEN /\ sess' = [sess EXCEPT ![s].state = "Rejected"]
            /\ UNCHANGED fs
       ELSE LET q == HandlerSavePath(sess[s])
            IN /\ sess' = [sess EXCEPT ![s].state = "Transferring",
                                       ![s].path = q]
               /\ fs' = [fs EXCEPT ![q] = [exists |-> TRUE, data |-> <<>>]]
  /\ UNCHANGED <<RECV_STATE, listening, atStop, srvRest>>

\* The connection's thread reads the next chunk and writes it to its
\* destination (to the unlinked file if the path has been removed meanwhile).
SessRecvChunk(s) ==
  /\ sess[s].state = "Transferring"
  /\ sess[s].idx < sess[s].total
  /\ sess' = [sess EXCEPT ![s].idx = sess[s].idx + 1]
  /\ fs' = [fs EXCEPT ![sess[s].path] =
              IF fs[sess[s].path].exists
              THEN [exists |-> TRUE,
                    data |-> Append(fs[sess[s].path].data, <<s, sess[s].idx>>)]
              ELSE fs[sess[s].path]]
  /\ UNCHANGED <<RECV_STATE, listening, atStop, srvRest>>

\* All chunks were read: the session completes.
SessComplete(s) ==
  /\ sess[s].state = "Transferring"
  /\ sess[s].idx = sess[s].total
  /\ sess' = [sess EXCEPT ![s].state = "Completed"]
  /\ UNCHANGED <<RECV_STATE, listening, fs, atStop, srvRest>>

\* The connection fails before the last chunk: the session fails and its
\* partial output is removed.
SessFail(s) ==
  /\ sess[s].state = "Transferring"
  /\ sess[s].idx < sess[s].total
  /\ sess' = [sess EXCEPT ![s].state = "Failed"]
  /\ fs' = [fs EXCEPT ![sess[s].path] = NoFile]
  /\ UNCHANGED <<RECV_STATE, listening, atStop, srvRest>>

\* The thread of connection s.
SessThread(s) ==
  \/ SessHandler(s)
  \/ SessRecvChunk(s)
  \/ SessComplete(s)
  \/ SessFail(s)

SrvNext ==
  \/ StartRecv
  \/ StopRecv
  \/ \E s \in Sessions : SessConnect(s)
  \/ \E s \in Sessions : SessHandler(s)
  \/ \E s \in Sessions : SessRecvChunk(s)
  \/ \E s \in Sessions : SessComplete(s)
  \/ \E s \in Sessions : SessFail(s)

ServerSpec == AllIdle /\ [][SrvNext]_allVars

\* Every connection runs on a thread of its own, which is scheduled.
ServerFairSpec == ServerSpec /\ \A s \in Sessions : WF_allVars(SessThread(s))

\* The chunks session s has to leave in its destination file.
OwnChunks(s) == [i \in 1..sess[s].total |-> <<s, i - 1>>]

\* C13: a session that completes leaves in its destination file its own
\* chunks and nothing else, whatever a session accepted alongside it did.
SessionIsolation ==
  [][\A s \in Sessions :
       (sess[s].state = "Transferring" /\ sess'[s].state = "Completed") =>
         (fs'[sess[s].path].exists /\ fs'[sess[s].path].data = OwnChunks(s))]_allVars

\* C14: while the server is stopped no connection is accepted, stop() leaves
\* every session as it is, and every session in progress ends Completed,
\* Failed or Rejected.
StopLeavesSessions ==
  /\ [][(~listening) =>
          (\A s \in Sessions : sess[s].state = "None" => sess'[s].state = "None")]_allVars
  /\ [][(listening /\ ~listening') => (sess' = sess)]_allVars
  /\ \A s \in Sessions :
       (sess[s].state \in {"Pending", "Transferring"})
         ~> (sess[s].state \in {"Completed", "Failed", "Rejected"})

\* A session that was mid-transfer when stop() was called has completed,
\* the server still being stopped and the other connection not accepted.
StopLeavesSessionsWitness ==
  /\ ~listening
  /\ \E s \in Sessions :
       /\ atStop[s] = "Transferring"
       /\ sess[s].state = "Completed"
       /\ \E t \in Sessions : sess[t].state = "None"

\* ========================================================= event pipeline
\* The meta _event_worker stores for an item: item.get('meta') or ''.
MetaStored(item) == IF item.meta \in {"None", ""} THEN "" ELSE item.meta

\* What _event_worker writes to the cache for tid t after its INSERT:
\* EVENT_COUNTS_CACHE.get(tid, 0) + 1.
CacheBump(cache, t) == (IF cache[t] < 0 THEN 0 ELSE cache[t]) + 1

\* Some thread calls enqueue_event(tid, event, meta).
EnqueueEvent ==
  /\ Len(evEnqueued) < MaxEvents
  /\ \E t \in Tids, e \in EventNames, m \in Metas :
       /\ EVENT_QUEUE' = enqueue_event(EVENT_QUEUE, t, e, m)
       /\ evEnqueued' = Append(evEnqueued, [tid |-> t, event |-> e, meta |-> m])
  /\ evUnfinished' = evUnfinished + 1
  /\ UNCHANGED <<eventsTable, evPc, evItem, EVENT_COUNTS_CACHE, cPc, cTids,
                 cMissing, cOut, cLow, page, pageReq, pageToggle,
                 evRest>>

\* _event_worker: take an item; on None leave the loop, else INSERT it: the
\* INSERT commits, or raises (the database is locked by another writer) and
\* the exception is swallowed.
EvGetInsert ==
  /\ evPc = "get"
  /\ EVENT_QUEUE # <<>>
  /\ EVENT_QUEUE' = Tail(EVENT_QUEUE)
  /\ evItem' = Head(EVENT_QUEUE)
  /\ IF Head(EVENT_QUEUE) = EventSentinel
     THEN /\ evPc' = "stopped"
          /\ UNCHANGED eventsTable
     ELSE \E dbOk \in BOOLEAN :
            IF dbOk
            THEN /\ eventsTable' = InsertEvent(eventsTable, Head(EVENT_QUEUE).tid,
                                               Head(EVENT_QUEUE).event,
                                               MetaStored(Head(EVENT_QUEUE)), "worker")
                 /\ evPc' = "cache"
            ELSE /\ evPc' = "done"
                 /\ UNCHANGED eventsTable
  /\ UNCHANGED <<evEnqueued, evUnfinished, EVENT_COUNTS_CACHE, cPc, cTids,
                 cMissing, cOut, cLow, page, pageReq, pageToggle,
                 evRest>>

\* _event_worker: under EVENT_COUNTS_LOCK, bump the cached count of the tid.
EvCacheUpdate ==
  /\ evPc = "cache"
  /\ EVENT_COUNTS_CACHE' =
       [EVENT_COUNTS_CACHE EXCEPT ![evItem.tid] = CacheBump(EVENT_COUNTS_CACHE, evItem.tid)]
  /\ evPc' = "done"
  /\ UNCHANGED <<eventsTable, evEnqueued, evUnfinished, evItem, cPc, cTids,
                 cMissing, cOut, cLow, page, pageReq, pageToggle,
                 EVENT_QUEUE, evRest>>

\* _event_worker: finally EVENT_QUEUE.task_done().
EvTaskDone ==
  /\ evPc = "done"
  /\ evUnfinished' = evUnfinished - 1
  /\ evPc' = "get"
  /\ evItem' = NoItem
  /\ UNCHANGED <<eventsTable, evEnqueued, EVENT_COUNTS_CACHE, cPc, cTids,
                 cMissing, cOut, cLow, page, pageReq, pageToggle,
                 EVENT_QUEUE, evRest>>

\* events_counts: under EVENT_COUNTS_LOCK, answer the cached tids and list
\* the others as missing.
CountsStart ==
  /\ cPc = "idle"
  /\ \E tids \in (SUBSET Tids) \ {{}} :
       LET missing == {t \in tids : EVENT_COUNTS_CACHE[t] < 0}
       IN /\ cTids' = tids
          /\ cMissing' = missing
          /\ cOut' = [t \in Tids |->
                        IF t \in tids \ missing THEN EVENT_COUNTS_CACHE[t] ELSE -1]
          /\ cPc' = IF missing = {} THEN "return" ELSE "query"
  /\ cLow' = [t \in Tids |-> CountOf(eventsTable, t)]
  /\ UNCHANGED <<eventsTable, evEnqueued, evUnfinished, evPc, evItem,
                 EVENT_COUNTS_CACHE, page, pageReq, pageToggle,
                 EVENT_QUEUE, evRest>>

\* events_counts: SELECT tid, COUNT(*) for the missing tids, zero for those
\* with no row.
CountsQuery ==
  /\ cPc = "query"
  /\ cOut' = [t \in Tids |->
                IF t \in cMissing THEN CountOf(eventsTable, t) ELSE cOut[t]]
  /\ cPc' = "store"
  /\ UNCHANGED <<eventsTable, evEnqueued, evUnfinished, evPc, evItem,
                 EVENT_COUNTS_CACHE, cTids, cMissing, cLow, page,
                 pageReq, pageToggle, EVENT_QUEUE, evRest>>

\* events_counts: under EVENT_COUNTS_LOCK, cache the counts just read.
CountsStore ==
  /\ cPc = "store"
  /\ EVENT_COUNTS_CACHE' =
       [t \in Tids |-> IF t \in cMissing THEN cOut[t] ELSE EVENT_COUNTS_CACHE[t]]
  /\ cPc' = "return"
  /\ UNCHANGED <<eventsTable, evEnqueued, evUnfinished, evPc, evItem, cTids,
                 cMissing, cOut, cLow, page, pageReq, pageToggle,
                 EVENT_QUEUE, evRest>>

\* events_counts: return jsonify(out); the locals of the request are gone.
CountsReturn ==
  /\ cPc = "return"
  /\ cPc' = "idle"
  /\ cTids' = {}
  /\ cMissing' = {}
  /\ cOut' = [t \in Tids |-> -1]
  /\ cLow' = [t \in Tids |-> 0]
  /\ UNCHANGED <<eventsTable, evEnqueued, evUnfinished, evPc, evItem,
                 EVENT_COUNTS_CACHE, page, pageReq, pageToggle, EVENT_QUEUE,
                 evRest>>

\* _shutdown_workers: put the stop requests on both queues (its joins have a
\* timeout and change nothing).
Shutdown ==
  /\ ~shutdownRequested
  /\ shutdownRequested' = TRUE
  /\ EVENT_QUEUE' = Append(EVENT_QUEUE, EventSentinel)
  /\ evUnfinished' = evUnfinished + 1
  /\ TRANSFER_QUEUE' = Append(TRANSFER_QUEUE, TRANSFER_SENTINEL)
  /\ UNCHANGED <<sessionVars, regVars, lifeVars, srvVars, extraVars, eventsTable,
                 evEnqueued, evPc, evItem, EVENT_COUNTS_CACHE, cPc, cTids,
                 cMissing, cOut, cLow, page, pageReq, pageToggle, agg, twPc,
                 rowBytes, aEnqueued, aCount, twDbFailed>>

EvNext ==
  \/ Shutdown
  \/ EnqueueEvent
  \/ EvGetInsert
  \/ EvCacheUpdate
  \/ EvTaskDone
  \/ CountsStart
  \/ CountsQuery
  \/ CountsStore
  \/ CountsReturn

\* The process starts on a database that may hold rows of earlier runs.
EventInit ==
  /\ SessionIdle
  /\ RegIdle
  /\ LifeIdle
  /\ SrvIdle
  /\ TwIdle
  /\ ExtraIdle
  /\ EvStart
  /\ eventsTable \in UNION {TablesOfLen(n) : n \in 0..MaxSeed}

EventSpec == EventInit /\ [][EvNext]_allVars

\* The rows the worker has written, as the events they carry.
WorkerRows ==
  LET rows == SelectSeq(eventsTable, LAMBDA r : r.via = "worker")
  IN [i \in 1..Len(rows) |->
        [tid |-> rows[i].tid, event |-> rows[i].event, meta |-> rows[i].meta]]

\* C17: once every enqueued event has been handled (EVENT_QUEUE.join()
\* returns), the worker has written exactly one row per enqueued event, with
\* its tid, event name and meta.
EveryEventPersisted ==
  (evEnqueued # <<>> /\ evUnfinished = 0) => WorkerRows = evEnqueued

\* C20: the count /events/counts returns for a tid is the number of rows the
\* events table holds for it at some moment of the request.
CountsExact ==
  cPc = "return" =>
    \A t \in cTids : cLow[t] <= cOut[t] /\ cOut[t] <= CountOf(eventsTable, t)

\* ============================================================= GET /events
\* The WHERE clause of events: each filter applies when its parameter is
\* given and not empty.
\* (Faulty variant, for EventsPage: the cursor row itself is returned.)
EventsWhereInclusive(r, req) ==
  /\ (req.tid # Absent => r.tid = req.tid)
  /\ (req.event # Absent => r.event = req.event)
  /\ (req.before # <<>> => r.id <= req.before[1])

EventsWhere(r, req) ==
  /\ (req.tid # Absent => r.tid = req.tid)
  /\ (req.event # Absent => r.event = req.event)
  /\ (req.before # <<>> => r.id < req.before[1])

\* ORDER BY id DESC over a set of rows.
RECURSIVE OrderByIdDesc(_)
OrderByIdDesc(rows) ==
  IF rows = {} THEN <<>>
  ELSE LET top == CHOOSE r \in rows : \A x \in rows : x.id <= r.id
       IN <<top>> \o OrderByIdDesc(rows \ {top})

\* LIMIT n (a negative n is no limit) and OFFSET k (a negative k is 0).
LimitRows(sq, n) == IF n < 0 \/ n >= Len(sq) THEN sq ELSE SubSeq(sq, 1, n)
OffsetRows(sq, k) == IF k <= 0 THEN sq ELSE SubSeq(sq, k + 1, Len(sq))

\* The item events returns for a row.
EventItem(r) == [id |-> r.id, tid |-> r.tid, event |-> r.event, meta |-> r.meta]

\* events: SELECT ... WHERE ... ORDER BY id DESC LIMIT ? [OFFSET ?].
events(table, req) ==
  LET rows == {table[i] : i \in {j \in 1..Len(table) : EventsWhere(table[j], req)}}
      sorted == OrderByIdDesc(rows)
      skipped == IF req.offset = <<>> THEN sorted
                 ELSE OffsetRows(sorted, req.offset[1])
      taken == LimitRows(skipped, req.limit)
  IN [i \in 1..Len(taken) |-> EventItem(taken[i])]

\* The parameters a GET /events request may carry.
EventsRequests ==
  [limit : -1..MaxRows,
   offset : {<<>>} \cup {<<k>> : k \in 0..2},
   before : {<<>>} \cup {<<b>> : b \in 0..(MaxRows + 1)},
   tid : {Absent} \cup Tids,
   event : {Absent} \cup EventNames]

\* A client calls GET /events (one request is followed).
EventsRequest ==
  /\ ~pageToggle
  /\ \E req \in EventsRequests :
       /\ pageReq' = req
       /\ page' = events(eventsTable, req)
  /\ pageToggle' = ~pageToggle
  /\ UNCHANGED <<eventsTable, evEnqueued, evUnfinished, evPc, evItem,
                 EVENT_COUNTS_CACHE, cPc, cTids, cMissing, cOut, cLow,
                 EVENT_QUEUE, evRest>>

EventsApiNext ==
  \/ EventsRequest

\* The events table holds any rows when a request arrives.
EventsApiInit ==
  /\ SessionIdle
  /\ RegIdle
  /\ LifeIdle
  /\ SrvIdle
  /\ TwIdle
  /\ ExtraIdle
  /\ EvStart
  /\ eventsTable \in UNION {TablesOfLen(n) : n \in 0..MaxRows}

EventsApiSpec == EventsApiInit /\ [][EventsApiNext]_allVars

\* The rows of the table that satisfy the filters given in req.
Matching(table, req) ==
  {table[i] : i \in {j \in 1..Len(table) :
     /\ (req.tid = Absent \/ table[j].tid = req.tid)
     /\ (req.event = Absent \/ table[j].event = req.event)
     /\ (req.before = <<>> \/ table[j].id < req.before[1])}}

\* pg lists, in strictly descending id order, the matching rows that come
\* after the skip highest ones, limit of them at most.
PageIs(pg, table, req, skip) ==
  LET M == Matching(table, req)
      Rank(r) == Cardinality({x \in M : x.id >= r.id})
  IN /\ \A i \in 1..(Len(pg) - 1) : pg[i].id > pg[i + 1].id
     /\ {pg[i] : i \in 1..Len(pg)} =
          {EventItem(r) : r \in {x \in M : skip < Rank(x) /\ Rank(x) <= skip + req.limit}}

\* C19 as stated: a request with a non-negative limit returns the limit
\* highest-id rows that satisfy every given filter, in strictly descending
\* id order.
EventsPageTopLimit ==
  [][(pageToggle' # pageToggle /\ pageReq'.limit >= 0) =>
       PageIs(page', eventsTable, pageReq', 0)]_allVars

\* C19: a request with a non-negative limit returns, in strictly descending
\* id order, the (at most limit) highest-id rows that satisfy every given
\* filter, after skipping the offset highest ones when an offset is given.
EventsPage ==
  [][(pageToggle' # pageToggle /\ pageReq'.limit >= 0) =>
       PageIs(page', eventsTable, pageReq',
              IF pageReq'.offset = <<>> THEN 0 ELSE pageReq'.offset[1])]_allVars

\* A page of one row was returned for a request with a cursor, a tid filter
\* and an offset, from a table with three rows of that tid.
EventsPageWitness ==
  /\ pageReq.limit = 1
  /\ pageReq.offset = <<1>>
  /\ pageReq.before = <<3>>
  /\ pageReq.tid = "t1"
  /\ pageReq.event = Absent
  /\ CountOf(eventsTable, "t1") = 3
  /\ Len(page) = 1
  /\ page[1].id = 1

\* ========================================================= transfer worker
\* UPDATE transfers SET bytes_sent = bytes_sent + delta WHERE tid = ?, as it
\* shows on the row followed: ok tells whether the UPDATE went through.
UpdateBytesSent(bytes, tid, delta, ok) ==
  IF tid = "a" /\ ok THEN bytes + delta ELSE bytes

\* Some thread calls enqueue_transfer_delta(tid, delta).
EnqueueDelta ==
  /\ Len(TRANSFER_QUEUE) < MaxQueue
  /\ \E t \in TwTids, d \in Deltas :
       /\ t = "a" => aCount < MaxDeltas
       /\ TRANSFER_QUEUE' = enqueue_transfer_delta(TRANSFER_QUEUE, t, d)
       /\ aEnqueued' = IF t = "a" THEN aEnqueued + d ELSE aEnqueued
       /\ aCount' = IF t = "a" THEN aCount + 1 ELSE aCount
  /\ UNCHANGED <<agg, twPc, rowBytes, twDbFailed, shutdownRequested, twRest>>

\* _transfer_worker: every aggregated delta is written and agg is cleared
\* (an UPDATE that raises is skipped).
FlushAll(ok) ==
  /\ rowBytes' = UpdateBytesSent(rowBytes, "a", agg["a"], ok)
  /\ twDbFailed' = (twDbFailed \/ (agg["a"] > 0 /\ ~ok))
  /\ agg' = [t \in TwTids |-> 0]

\* _transfer_worker: get() returns an item: the sentinel (flush and leave the
\* loop) or a delta (aggregate it, and flush the tid at the threshold).
TwGet ==
  /\ twPc = "run"
  /\ TRANSFER_QUEUE # <<>>
  /\ TRANSFER_QUEUE' = Tail(TRANSFER_QUEUE)
  /\ LET item == Head(TRANSFER_QUEUE)
         tid == item[1]
         sum == agg[tid] + item[2]
     IN IF item = TRANSFER_SENTINEL
        THEN /\ \E ok \in BOOLEAN : FlushAll(ok)
             /\ twPc' = "stopped"
        ELSE /\ twPc' = twPc
             /\ IF sum >= FlushThreshold
                THEN \E ok \in BOOLEAN :
                       /\ rowBytes' = UpdateBytesSent(rowBytes, tid, sum, ok)
                       /\ twDbFailed' = (twDbFailed \/ (tid = "a" /\ ~ok))
                       /\ agg' = [agg EXCEPT ![tid] = 0]
                ELSE /\ agg' = [agg EXCEPT ![tid] = sum]
                     /\ UNCHANGED <<rowBytes, twDbFailed>>
  /\ UNCHANGED <<aEnqueued, aCount, shutdownRequested, twRest>>

\* _transfer_worker: get() times out on an empty queue: flush what has been
\* aggregated.
TwTimeout ==
  /\ twPc = "run"
  /\ TRANSFER_QUEUE = <<>>
  /\ \E t \in TwTids : agg[t] > 0
  /\ \E ok \in BOOLEAN : FlushAll(ok)
  /\ UNCHANGED <<twPc, aEnqueued, aCount, shutdownRequested, TRANSFER_QUEUE,
                 twRest>>

TwNext ==
  \/ Shutdown
  \/ EnqueueDelta
  \/ TwGet
  \/ TwTimeout

TransferWorkerSpec == AllIdle /\ [][TwNext]_allVars

\* The worker thread is scheduled: it takes the next item when there is one
\* and its get() times out when the queue stays empty.
TransferWorkerFairSpec ==
  TransferWorkerSpec /\ WF_allVars(TwGet) /\ WF_allVars(TwTimeout)

\* C18: a delta enqueued for the tid followed is eventually added to
\* bytes_sent of its row, whatever else arrives on the queue (unless an
\* UPDATE raised or the workers were shut down).
DeltaEventuallyApplied ==
  (aEnqueued > rowBytes) ~>
    (rowBytes = aEnqueued \/ twDbFailed \/ shutdownRequested)

\* ============================================================ POST /upload
\* What f.save(save_path) leaves in the directory: the file is opened for
\* writing (created, or truncated if it is there) and filled with the upload.
SaveFile(dir, q, u) == [dir EXCEPT ![q] = u]

\* upload_file: a request arrives; without a file it is answered with 400,
\* else save_path starts as uploads/<filename>.
UploadStart(u) ==
  /\ upPc[u] = "idle"
  /\ \E hasFile \in BOOLEAN, name \in UpNames :
       IF hasFile
       THEN /\ upPc' = [upPc EXCEPT ![u] = "probe"]
            /\ upPath' = [upPath EXCEPT ![u] = <<name, 0>>]
       ELSE /\ upPc' = [upPc EXCEPT ![u] = "refused"]
            /\ UNCHANGED upPath
  /\ UNCHANGED <<upDir, upI, upRest>>

\* upload_file: one turn of "while os.path.exists(save_path)": move on to
\* the next suffix, or leave the loop.
UploadProbe(u) ==
  /\ upPc[u] = "probe"
  /\ IF upDir[upPath[u]] # -1
     THEN /\ upPath' = [upPath EXCEPT ![u] = <<upPath[u][1], upI[u]>>]
          /\ upI' = [upI EXCEPT ![u] = upI[u] + 1]
          /\ UNCHANGED upPc
     ELSE /\ upPc' = [upPc EXCEPT ![u] = "save"]
          /\ UNCHANGED <<upPath, upI>>
  /\ UNCHANGED <<upDir, upRest>>

\* upload_file: f.save(save_path) and the answer: the path, or 500 when the
\* save raises.
UploadSave(u) ==
  /\ upPc[u] = "save"
  /\ \E ok \in BOOLEAN :
       IF ok
       THEN /\ upDir' = SaveFile(upDir, upPath[u], u)
            /\ upPc' = [upPc EXCEPT ![u] = "done"]
       ELSE /\ upPc' = [upPc EXCEPT ![u] = "failed"]
            /\ UNCHANGED upDir
  /\ UNCHANGED <<upPath, upI, upRest>>

UploadNext ==
  \/ \E u \in Uploads : UploadStart(u)
  \/ \E u \in Uploads : UploadProbe(u)
  \/ \E u \in Uploads : UploadSave(u)

UploadSpec == AllIdle /\ [][UploadNext]_allVars

\* C21: every upload answered with a path finds its own content at that
\* path, no two of them share a path, and a file that is in the directory is
\* never written again.
UploadsKeepApart ==
  /\ \A u \in Uploads : upPc[u] = "done" => upDir[upPath[u]] = u
  /\ \A u, v \in Uploads :
       (u # v /\ upPc[u] = "done" /\ upPc[v] = "done") => upPath[u] # upPath[v]

\* ------------------------------------------- standalone file server: requests
\* The header check_auth compares with: f"Bearer {self.password}".
BearerOf(pw) == IF pw = "s3cret" THEN "Bearer s3cret" ELSE "Bearer "

\* check_auth: with a password configured the Authorization header must
\* equal the Bearer string; without one every request passes.
check_auth(pw, auth) == IF pw # "" THEN auth = BearerOf(pw) ELSE TRUE

\* main(): --password sets the handler's class attribute, then the server
\* serves.
HsMain(pw) ==
  /\ ~hsServing
  /\ hsServing' = TRUE
  /\ hsPassword' = pw
  /\ UNCHANGED <<hsReq, hsStatus, hsEffects>>
  /\ UNCHANGED hsRest

\* What the base class serves for a path: the directory "/" goes to
\* list_directory, a file is sent with its headers, anything else is 404.
\* A HEAD request gets a file's headers only; the overridden list_directory
\* writes the whole listing whatever the method.
send_head(path, withBody) ==
  CASE path = "/" -> [status |-> 200, effects |-> {"listing"}]
    [] path = "/report.pdf" ->
         [status |-> 200,
          effects |-> IF withBody THEN {"metadata", "content"} ELSE {"metadata"}]
    [] OTHER -> [status |-> 404, effects |-> {}]

HsAnswer(req, status, effects) ==
  /\ hsReq' = req
  /\ hsStatus' = status
  /\ hsEffects' = effects
  /\ UNCHANGED <<hsServing, hsPassword>>
  /\ UNCHANGED hsRest

\* do_GET: check_auth, then the listing for "/" and the base class for the
\* rest.
do_GET(path, auth) ==
  /\ hsServing
  /\ LET req == [method |-> "GET", path |-> path, auth |-> auth]
         r == send_head(path, TRUE)
     IN IF ~check_auth(hsPassword, auth)
        THEN HsAnswer(req, 401, {})
        ELSE HsAnswer(req, r.status, r.effects)

\* do_HEAD is the base class's: the handler does not override it, so no
\* check_auth runs.
do_HEAD(path, auth) ==
  /\ hsServing
  /\ LET req == [method |-> "HEAD", path |-> path, auth |-> auth]
         r == send_head(path, FALSE)
     IN HsAnswer(req, r.status, r.effects)

\* do_POST: check_auth, then /download sends the chosen files and every
\* other path stores an upload; either fails on a bad request.
do_POST(path, auth, good) ==
  /\ hsServing
  /\ LET req == [method |-> "POST", path |-> path, auth |-> auth]
     IN IF ~check_auth(hsPassword, auth)
        THEN HsAnswer(req, 401, {})
        ELSE IF path = "/download"
        THEN IF good THEN HsAnswer(req, 200, {"download"})
                     ELSE HsAnswer(req, 404, {})
        ELSE IF good THEN HsAnswer(req, 200, {"upload"})
                     ELSE HsAnswer(req, 400, {})

\* A method with no do_ method: the base server answers 501.
HsUnsupported(method, path, auth) ==
  /\ hsServing
  /\ method \notin {"GET", "HEAD", "POST"}
  /\ HsAnswer([method |-> method, path |-> path, auth |-> auth], 501, {})

FileServerNext ==
  \/ \E pw \in HsPasswords : HsMain(pw)
  \/ \E p \in HsPaths, a \in HsAuthHeaders : do_GET(p, a)
  \/ \E p \in HsPaths, a \in HsAuthHeaders : do_HEAD(p, a)
  \/ \E p \in HsPaths, a \in HsAuthHeaders, g \in BOOLEAN : do_POST(p, a, g)
  \/ \E m \in HsMethods, p \in HsPaths, a \in HsAuthHeaders :
       HsUnsupported(m, p, a)

FileServerSpec == AllIdle /\ [][FileServerNext]_allVars

\* C22: with a password configured, a request whose Authorization header is
\* not exactly "Bearer <password>" is refused and the server does nothing
\* for it: nothing listed, read, uploaded or downloaded, and the answer is
\* 401 (501 for a method the server does not know).
AuthGuardsEveryRequest ==
  (hsPassword # "" /\ hsStatus # 0 /\ hsReq.auth # BearerOf(hsPassword))
    => /\ hsEffects = {}
       /\ hsStatus \in {401, 501}

\* --------------------------------- /start-recv, /stop-recv: request threads
\* What a step of start_recv or stop_recv leaves alone.
rcFrame == <<vars, regVars, lifeVars, evVars, twVars, rcSide,
             listening, sess, fs, atStop>>

\* ControlServer.start(): binding a port another running server holds
\* raises.
PortInUse(port) == \E q \in rcSrv : rcPort[q] = port

\* start_recv reads the form and tests RECV_STATE['server']: with a server
\* recorded it redirects at once.
StartRecvGuard(r, port) ==
  /\ rcPc[r] = "idle"
  /\ rcPort' = [rcPort EXCEPT ![r] = port]
  /\ rcPc' = [rcPc EXCEPT ![r] =
                IF RECV_STATE.server # "None" THEN "done" ELSE "srv"]
  /\ UNCHANGED <<RECV_STATE, rcSrv, rcAnn>>
  /\ UNCHANGED rcFrame

\* srv = ControlServer(...); srv.start(): the request ends there when start
\* raises.
StartRecvServer(r) ==
  /\ rcPc[r] = "srv"
  /\ IF PortInUse(rcPort[r])
     THEN /\ rcPc' = [rcPc EXCEPT ![r] = "done"]
          /\ UNCHANGED rcSrv
     ELSE /\ rcPc' = [rcPc EXCEPT ![r] = "ann"]
          /\ rcSrv' = rcSrv \cup {r}
  /\ UNCHANGED <<RECV_STATE, rcPort, rcAnn>>
  /\ UNCHANGED rcFrame

\* ann = DiscoveryAnnouncer(...); ann.start(): the request ends there when
\* start raises.
StartRecvAnnouncer(r, ok) ==
  /\ rcPc[r] = "ann"
  /\ IF ok
     THEN /\ rcPc' = [rcPc EXCEPT ![r] = "recSrv"]
          /\ rcAnn' = rcAnn \cup {r}
     ELSE /\ rcPc' = [rcPc EXCEPT ![r] = "done"]
          /\ UNCHANGED rcAnn
  /\ UNCHANGED <<RECV_STATE, rcPort, rcSrv>>
  /\ UNCHANGED rcFrame

\* RECV_STATE['server'] = srv
StartRecvRecordServer(r) ==
  /\ rcPc[r] = "recSrv"
  /\ RECV_STATE' = [RECV_STATE EXCEPT !.server = r]
  /\ rcPc' = [rcPc EXCEPT ![r] = "recAnn"]
  /\ UNCHANGED <<rcPort, rcSrv, rcAnn>>
  /\ UNCHANGED rcFrame

\* RECV_STATE['announcer'] = ann
StartRecvRecordAnnouncer(r) ==
  /\ rcPc[r] = "recAnn"
  /\ RECV_STATE' = [RECV_STATE EXCEPT !.announcer = r]
  /\ rcPc' = [rcPc EXCEPT ![r] = "done"]
  /\ UNCHANGED <<rcPort, rcSrv, rcAnn>>
  /\ UNCHANGED rcFrame

\* stop_recv: if RECV_STATE['announcer']: RECV_STATE['announcer'].stop()
StopRecvAnnouncer(r) ==
  /\ rcPc[r] = "idle"
  /\ rcAnn' = rcAnn \ {RECV_STATE.announcer}
  /\ rcPc' = [rcPc EXCEPT ![r] = "stopSrv"]
  /\ UNCHANGED <<RECV_STATE, rcPort, rcSrv>>
  /\ UNCHANGED rcFrame

\* if RECV_STATE['server']: RECV_STATE['server'].stop()
StopRecvServer(r) ==
  /\ rcPc[r] = "stopSrv"
  /\ rcSrv' = rcSrv \ {RECV_STATE.server}
  /\ rcPc' = [rcPc EXCEPT ![r] = "clearAnn"]
  /\ UNCHANGED <<RECV_STATE, rcPort, rcAnn>>
  /\ UNCHANGED rcFrame

\* RECV_STATE['announcer'] = None
StopRecvClearAnnouncer(r) ==
  /\ rcPc[r] = "clearAnn"
  /\ RECV_STATE' = [RECV_STATE EXCEPT !.announcer = "None"]
  /\ rcPc' = [rcPc EXCEPT ![r] = "clearSrv"]
  /\ UNCHANGED <<rcPort, rcSrv, rcAnn>>
  /\ UNCHANGED rcFrame

\* RECV_STATE['server'] = None
StopRecvClearServer(r) ==
  /\ rcPc[r] = "clearSrv"
  /\ RECV_STATE' = [RECV_STATE EXCEPT !.server = "None"]
  /\ rcPc' = [rcPc EXCEPT ![r] = "done"]
  /\ UNCHANGED <<rcPort, rcSrv, rcAnn>>
  /\ UNCHANGED rcFrame

RecvControlNext ==
  \E r \in RcReqs :
    \/ \E port \in RcPorts : StartRecvGuard(r, port)
    \/ StartRecvServer(r)
    \/ \E ok \in BOOLEAN : StartRecvAnnouncer(r, ok)
    \/ StartRecvRecordServer(r)
    \/ StartRecvRecordAnnouncer(r)
    \/ StopRecvAnnouncer(r)
    \/ StopRecvServer(r)
    \/ StopRecvClearAnnouncer(r)
    \/ StopRecvClearServer(r)

RecvControlSpec == AllIdle /\ [][RecvControlNext]_allVars

\* C23: whatever the interleaving of /start-recv and /stop-recv requests,
\* at most one ControlServer and at most one DiscoveryAnnouncer started by
\* the UI run at any time.
AtMostOneReceiver ==
  /\ Cardinality(rcSrv) <= 1
  /\ Cardinality(rcAnn) <= 1

\* No /start-recv or /stop-recv request is in progress.
RcQuiet == \A r \in RcReqs : rcPc[r] \in {"idle", "done"}

\* C30: with no request in progress RECV_STATE holds a server and an
\* announcer or neither, and every ControlServer still running is the one
\* RECV_STATE['server'] refers to.
RecvStateTracksReceiver ==
  RcQuiet =>
    /\ (RECV_STATE.server = "None") <=> (RECV_STATE.announcer = "None")
    /\ \A q \in rcSrv : RECV_STATE.server = q

\* --------------------------------------------- /events: cursor pagination
\* What the pager and a live insert leave alone.
pgFrame == <<vars, regVars, lifeVars, srvVars, twVars, pgSide,
             evEnqueued, evUnfinished, evPc, evItem, EVENT_COUNTS_CACHE,
             cPc, cTids, cMissing, cOut, cLow, page, pageReq, pageToggle>>

\* Math.min over the ids of a page and minEventId.
MinEventId(pg, cur) ==
  LET ids == {pg[i].id : i \in 1..Len(pg)} \cup (IF cur = 0 THEN {} ELSE {cur})
  IN IF ids = {} THEN 0 ELSE CHOOSE m \in ids : \A x \in ids : m <= x

\* The request loadEvents builds: limit, the filters, and before once
\* minEventId is set.
LoadEventsUrl(limit, tid, event, cur) ==
  [limit |-> limit, offset |-> <<>>,
   before |-> IF cur = 0 THEN <<>> ELSE <<cur>>,
   tid |-> tid, event |-> event]

\* loadEvents: fetch a page, append it, lower minEventId; an empty or a
\* short page disables the button.
LoadEvents(limit, tid, event) ==
  /\ pgPc # "end"
  /\ pgPc = "paging" =>
       (limit = pgReq.limit /\ tid = pgReq.tid /\ event = pgReq.event)
  /\ LET req == LoadEventsUrl(limit, tid, event, pgMin)
         js == events(eventsTable, req)
     IN /\ pgReq' = req
        /\ pgSeen' = pgSeen \o js
        /\ pgMin' = MinEventId(js, pgMin)
        /\ pgPc' = IF Len(js) = 0 \/ Len(js) < limit THEN "end" ELSE "paging"
        /\ pgFirst' = IF pgPc = "start"
                      THEN {EventItem(r) : r \in Matching(eventsTable, req)}
                      ELSE pgFirst
  /\ UNCHANGED <<eventsTable, pgLive>>
  /\ UNCHANGED pgFrame

\* A new event is written to the table while the dashboard is open.
LiveInsert(tid, event) ==
  /\ Len(eventsTable) < MaxRows
  /\ eventsTable' = InsertEvent(eventsTable, tid, event, "", "worker")
  /\ pgLive' = (pgLive \/ pgPc = "paging")
  /\ UNCHANGED <<pgPc, pgReq, pgMin, pgSeen, pgFirst>>
  /\ UNCHANGED pgFrame

PagerNext ==
  \/ \E limit \in 1..MaxLimit, tid \in {Absent} \cup Tids,
        event \in {Absent} \cup EventNames : LoadEvents(limit, tid, event)
  \/ \E tid \in Tids, event \in EventNames : LiveInsert(tid, event)

PagerSpec == AllIdle /\ [][PagerNext]_allVars

\* C24: paging with before = the smallest id received so far returns the
\* events in strictly descending id order, and once a page ends the paging
\* every event that matched at the first request has been returned (so
\* exactly once), whatever was inserted between the requests.
CursorPagingStable ==
  /\ \A i \in 1..(Len(pgSeen) - 1) : pgSeen[i].id > pgSeen[i + 1].id
  /\ pgPc = "end" => pgFirst \subseteq {pgSeen[i] : i \in 1..Len(pgSeen)}

\* Two pages of one item each were fetched and ended the paging, with an
\* event inserted between the requests that no page returned.
CursorPagingWitness ==
  /\ pgPc = "end"
  /\ pgLive
  /\ pgReq.limit = 1
  /\ Len(pgSeen) = 2
  /\ Cardinality(pgFirst) = 2
  /\ Len(eventsTable) = 3

\* ------------------------------------------- transfer worker: exactly once
\* C25: once the queue is drained and the worker has flushed what it
\* aggregated, bytes_sent of the row followed is its initial value (0) plus
\* the sum of all deltas enqueued for its tid, also when an UPDATE raised.
EveryDeltaAppliedOnce ==
  (TRANSFER_QUEUE = <<>> /\ agg["a"] = 0) => rowBytes = aEnqueued

\* ------------------------------------------------ _bg_send: terminal row
\* C26: when a background send is over, the transfers row of its tid exists
\* and is terminal: exactly one of completed = 1 and error non-null, also
\* when the Sender could not be constructed.
SendLeavesTerminalRow ==
  sPc \in {"done", "failed"} =>
    /\ sendRow.exists
    /\ (sendRow.completed = 1) # (sendRow.error # "None")

\* --------------------------------------------- receive row: bytes and outcome
\* C27: the transfers row of a receive that completed (completed = 1) has
\* bytes_sent equal to total_bytes.
CompletedRowIsFull ==
  (rState = "Completed" /\ recvRow.completed = 1) =>
    recvRow.bytes_sent = recvRow.total_bytes

\* C28: the row of a receive reads as successful (completed = 1, no error)
\* only if on_complete was invoked with ok = true.
CompletedOnlyIfOk ==
  (recvRow.completed = 1 /\ recvRow.error = "None") =>
    /\ onCompleteLog # <<>>
    /\ onCompleteLog[Len(onCompleteLog)].ok

\* ------------------------------------------- receive handlers: the save path
\* os.path.join(a, b): an absolute b replaces a, else b is appended.
PathJoin(a, b) ==
  IF b.abs THEN b ELSE [abs |-> a.abs, parts |-> a.parts \o b.parts]

\* os.path.normpath on the components: "." is dropped, ".." removes the
\* component before it (the root has no parent; a relative path keeps a
\* leading "..").
RECURSIVE NormParts(_, _, _)
NormParts(parts, done, abs) ==
  IF parts = <<>> THEN done
  ELSE LET c == Head(parts)
           rest == Tail(parts)
       IN IF c = "." THEN NormParts(rest, done, abs)
          ELSE IF c = ".."
          THEN IF done # <<>> /\ done[Len(done)] # ".."
               THEN NormParts(rest, SubSeq(done, 1, Len(done) - 1), abs)
               ELSE IF abs THEN NormParts(rest, done, abs)
                           ELSE NormParts(rest, Append(done, c), abs)
          ELSE NormParts(rest, Append(done, c), abs)

NormPath(p) == [abs |-> p.abs, parts |-> NormParts(p.parts, <<>>, p.abs)]

\* os.path.abspath(p): normpath(join(cwd, p)).
AbsPathOf(p) == NormPath(PathJoin(Cwd, p))

\* make_handler of scripts/ui.py: outdir = abspath('received'),
\* save_path = join(outdir, filename).
UiSavePath(filename) ==
  PathJoin(AbsPathOf(RelPath(<<"received">>)), filename)

\* handler of scripts/run_receiver.py:
\* save_path = abspath(join('received', filename)).
RunReceiverSavePath(filename) ==
  AbsPathOf(PathJoin(RelPath(<<"received">>), filename))

\* The file a path names lies in directory dir or below it.
Inside(p, dir) ==
  LET q == NormPath(p).parts
      d == NormPath(dir).parts
  IN /\ NormPath(p).abs = NormPath(dir).abs
     /\ Len(q) >= Len(d)
     /\ SubSeq(q, 1, Len(d)) = d

ReceivedDir == AbsPathOf(RelPath(<<"received">>))

\* The web UI's handler is given an Offer.
UiHandler(filename) ==
  /\ phBy' = "ui"
  /\ phFilename' = filename
  /\ phSavePath' = UiSavePath(filename)
  /\ UNCHANGED phRest

\* run_receiver's handler is given an Offer.
RunReceiverHandler(filename) ==
  /\ phBy' = "run_receiver"
  /\ phFilename' = filename
  /\ phSavePath' = RunReceiverSavePath(filename)
  /\ UNCHANGED phRest

SavePathNext ==
  \/ \E f \in OfferFilenames : UiHandler(f)
  \/ \E f \in OfferFilenames : RunReceiverHandler(f)

SavePathSpec == AllIdle /\ [][SavePathNext]_allVars

\* C29: whatever filename the Offer carries, the save path a receive handler
\* hands to the Receiver lies inside the 'received' directory.
SavePathInsideReceived ==
  phBy # "" => Inside(phSavePath, ReceivedDir)

\* ----------------------------------------------- standalone server: sanitize
\* str.strip(): white space is removed at both ends.
RECURSIVE LStrip(_)
LStrip(s) == IF s # <<>> /\ Head(s) = " " THEN LStrip(Tail(s)) ELSE s

RECURSIVE RStrip(_)
RStrip(s) ==
  IF s # <<>> /\ s[Len(s)] = " " THEN RStrip(SubSeq(s, 1, Len(s) - 1)) ELSE s

Strip(s) == RStrip(LStrip(s))

\* while name.startswith('.'): name = name[1:]
RECURSIVE DropLeadingDots(_)
DropLeadingDots(s) ==
  IF s # <<>> /\ Head(s) = "." THEN DropLeadingDots(Tail(s)) ELSE s

\* ch.isalnum() or ch in (' ', '.', '-', '_')
SafeChar(ch) ==
  ch \in {"a", "d", "e", "f", "i", "l", "o", "p", "u"} \cup {" ", ".", "-", "_"}

\* os.path.basename: what follows the last '/'.
RECURSIVE Basename(_)
Basename(s) ==
  IF \E i \in 1..Len(s) : s[i] = "/" THEN Basename(Tail(s)) ELSE s

UploadedFileName ==
  <<"u", "p", "l", "o", "a", "d", "e", "d", "_", "f", "i", "l", "e">>

\* sanitize(name) of do_POST.
sanitize(name) ==
  LET stripped == DropLeadingDots(Strip(name))
      safe == [i \in 1..Len(stripped) |->
                 IF SafeChar(stripped[i]) THEN stripped[i] ELSE "_"]
      out == Strip(safe)
  IN IF out = <<>> THEN UploadedFileName ELSE out

\* do_POST: the uploaded file's name is reduced to its basename and
\* sanitized.
SanitizeUpload(raw) ==
  /\ ~snDone
  /\ snDone' = TRUE
  /\ snRaw' = raw
  /\ snOut' = sanitize(Basename(raw))
  /\ UNCHANGED snRest

SanitizeNext == \E raw \in UploadNames : SanitizeUpload(raw)

SanitizeSpec == AllIdle /\ [][SanitizeNext]_allVars

\* C31: the sanitized name is not empty, is made only of alphanumerics,
\* space, '.', '-' and '_', holds no path separator and does not begin with
\* '.'.
SanitizedNameIsPlain ==
  snDone =>
    /\ snOut # <<>>
    /\ \A i \in 1..Len(snOut) : SafeChar(snOut[i]) /\ snOut[i] # "/"
    /\ snOut[1] # "."

\* --------------------------------------- standalone server: writing an upload
\* os.remove(dest_path).
\* (Faulty variant, for OversizeAndFailureLeaveNoFile: the file is left.)
RemoveDestSkipped(f) == f

RemoveDest(f) == NoDest

\* The except branch of do_POST: the partial file is removed when it is
\* there, and the request is answered with 500.
UploadFailed ==
  /\ uwDest' = IF uwDest.exists THEN RemoveDest(uwDest) ELSE uwDest
  /\ uwStatus' = 500
  /\ uwFailed' = TRUE
  /\ uwPc' = "done"

\* do_POST: dest_path is free (the suffix loop has seen to it); the file is
\* opened for writing, which may raise.
UploadOpen(size, cap, ok) ==
  /\ uwPc = "idle"
  /\ uwSize' = size
  /\ uwCap' = cap
  /\ IF ok
     THEN /\ uwDest' = [exists |-> TRUE, len |-> 0]
          /\ uwPc' = "writing"
          /\ UNCHANGED <<uwStatus, uwFailed>>
     ELSE UploadFailed
  /\ UNCHANGED uwTotal
  /\ UNCHANGED uwRest

\* One turn of the write loop: read a chunk; at the end of the upload answer
\* 200; else write it, and past MAX_UPLOAD_SIZE remove the file and answer
\* 413.  The read or the write may raise.
UploadWriteChunk(ok) ==
  /\ uwPc = "writing"
  /\ LET chunk == Min(ReadSize, uwSize - uwTotal)
         total == uwTotal + chunk
     IN IF ~ok
        THEN /\ UploadFailed
             /\ UNCHANGED uwTotal
        ELSE IF chunk = 0
        THEN /\ uwStatus' = 200
             /\ uwPc' = "done"
             /\ UNCHANGED <<uwDest, uwTotal, uwFailed>>
        ELSE /\ uwTotal' = total
             /\ IF total > uwCap
                THEN /\ uwDest' = RemoveDest(uwDest)
                     /\ uwStatus' = 413
                     /\ uwPc' = "done"
                ELSE /\ uwDest' = [uwDest EXCEPT !.len = total]
                     /\ UNCHANGED <<uwStatus, uwPc>>
             /\ UNCHANGED uwFailed
  /\ UNCHANGED <<uwSize, uwCap>>
  /\ UNCHANGED uwRest

UploadWriteNext ==
  \/ \E size \in 0..MaxBody, cap \in 0..MaxCap, ok \in BOOLEAN :
       UploadOpen(size, cap, ok)
  \/ \E ok \in BOOLEAN : UploadWriteChunk(ok)

UploadWriteSpec == AllIdle /\ [][UploadWriteNext]_allVars

NameStartsWith(b, a) ==
  b = a \/ <<a, b>> \in {<<"quickshare", "quickshare-old">>,
                          <<"received", "received-old">>}

\* target.startswith(cwd) on the path strings: the components before cwd's
\* last one are equal and the next component begins with cwd's last one.
StartsWith(target, cwd) ==
  LET t == target.parts
      c == cwd.parts
      n == Len(c)
  IN /\ target.abs = cwd.abs
     /\ Len(t) >= n
     /\ SubSeq(t, 1, n - 1) = SubSeq(c, 1, n - 1)
     /\ NameStartsWith(t[n], c[n])

\* os.path.isfile(target).
isfile(target) ==
  target.parts # <<>> /\ target.parts[Len(target.parts)] = "a.bin"

\* do_POST, /download: the requested name is joined to the served directory
\* and made absolute; it is sent when it passes the validation (the names
\* here hold no % escape for unquote to decode).
Download(fn) ==
  /\ ~dlDone
  /\ dlDone' = TRUE
  /\ dlName' = fn
  /\ LET target == AbsPathOf(PathJoin(Cwd, fn))
     IN dlSent' = IF StartsWith(target, Cwd) /\ isfile(target)
                  THEN {target} ELSE {}
  /\ UNCHANGED dlRest

DownloadNext == \E fn \in DownloadNames : Download(fn)

DownloadSpec == AllIdle /\ [][DownloadNext]_allVars

\* C33: every file sent by /download lies inside the served directory.
DownloadStaysInside ==
  \A t \in dlSent : Inside(t, Cwd)

\* --------------------------------------------------------------- POST /extract
\* os.path.commonpath of two absolute normalised paths: the longest run of
\* leading components they share.
RECURSIVE CommonParts(_, _)
CommonParts(a, b) ==
  IF a # <<>> /\ b # <<>> /\ Head(a) = Head(b)
  THEN <<Head(a)>> \o CommonParts(Tail(a), Tail(b))
  ELSE <<>>

\* The validation of extract: commonpath([received_dir, abs_path]) is
\* received_dir.
\* (Faulty variant, for ExtractStaysInside: a comparison of the strings.)
PathAllowedByPrefix(abs_path, received_dir) == StartsWith(abs_path, received_dir)

PathAllowed(abs_path, received_dir) ==
  CommonParts(received_dir.parts, abs_path.parts) = received_dir.parts

\* extract: the path is made absolute and validated (403); a missing file is
\* 404 and a directory fails in tarfile (500); else the file is unpacked and
\* hashed, and the row whose save_path is the path gets the extraction
\* columns.
Extract(path) ==
  /\ ~exDone
  /\ exDone' = TRUE
  /\ exPath' = path
  /\ LET abs_path == AbsPathOf(path)
         received_dir == AbsPathOf(RelPath(<<"received">>))
         dest == PathJoin(received_dir, RelPath(<<"a">>))
         found == {t \in DOMAIN exRows : exRows[t].save_path = abs_path}
     IN IF ~PathAllowed(abs_path, received_dir)
        THEN /\ exStatus' = 403
             /\ UNCHANGED <<exRead, exRows>>
        ELSE IF abs_path.parts[Len(abs_path.parts)] # "a.tar"
        THEN /\ exStatus' \in {404, 500}
             /\ UNCHANGED <<exRead, exRows>>
        ELSE /\ exStatus' = 200
             /\ exRead' = {abs_path}
             /\ exRows' = IF found = {} THEN exRows
                          ELSE LET tid == CHOOSE t \in found : TRUE
                               IN [exRows EXCEPT ![tid].extraction_path = dest,
                                                 ![tid].extraction_ok = 1]
  /\ UNCHANGED exRest

ExtractNext == \E path \in ExtractPaths : Extract(path)

ExtractSpec == AllIdle /\ [][ExtractNext]_allVars

\* C34: a path that resolves outside 'received' is refused with 403 and
\* nothing is read, unpacked or written to the transfers table; for a path
\* inside, the extraction columns change only on a row whose save_path is
\* that path.
ExtractStaysInside ==
  exDone =>
    /\ ~Inside(AbsPathOf(exPath), ReceivedDir) =>
         (exStatus = 403 /\ exRead = {} /\ exRows = ExRowsAtStart)
    /\ \A t \in DOMAIN exRows :
         exRows[t] # ExRowsAtStart[t] =>
           ExRowsAtStart[t].save_path = AbsPathOf(exPath)

\* received/a.tar was unpacked and its row, and no other, was updated.
ExtractWitness ==
  /\ exDone /\ exStatus = 200
  /\ exPath = RelPath(<<"received", "a.tar">>)
  /\ exRows["t1"].extraction_ok = 1
  /\ exRows["t2"] = ExRowsAtStart["t2"]

\* ------------------------------------------------------ upload cleanup worker
\* The test of a pass on a file: now - mtime > UPLOAD_TTL_SECONDS.
\* (Faulty variant, for CleanupRemovesExpiredOnly: >= in place of >.)
ExpiredAtTtl(now, mtime) == now - mtime >= UPLOAD_TTL_SECONDS

Expired(now, mtime) == now - mtime > UPLOAD_TTL_SECONDS

\* Time passes.
ClTick ==
  /\ clNow < MaxClock
  /\ clNow' = clNow + 1
  /\ UNCHANGED <<clDir, clStop, clPc, clPassNow, clTodo, clRemoved, clExpected>>
  /\ UNCHANGED clRest

\* upload_file saves a new file into the directory.
ClUpload(e) ==
  /\ clDir[e] = NoEntry
  /\ clDir' = [clDir EXCEPT ![e] = [kind |-> "file", mtime |-> clNow]]
  /\ UNCHANGED <<clNow, clStop, clPc, clPassNow, clTodo, clRemoved, clExpected>>
  /\ UNCHANGED clRest

\* _shutdown_workers: _upload_cleanup_stop.set().
ClStopSet ==
  /\ ~clStop
  /\ clStop' = TRUE
  /\ UNCHANGED <<clNow, clDir, clPc, clPassNow, clTodo, clRemoved, clExpected>>
  /\ UNCHANGED clRest

\* while not _upload_cleanup_stop.is_set(): a pass starts with now and the
\* listing of the directory; with the event set the worker returns.
ClCheck ==
  /\ clPc = "check"
  /\ IF clStop
     THEN /\ clPc' = "stopped"
          /\ UNCHANGED <<clPassNow, clTodo, clRemoved, clExpected>>
     ELSE /\ clPc' = "pass"
          /\ clPassNow' = clNow
          /\ clTodo' = {e \in ClEntries : clDir[e] # NoEntry}
          /\ clRemoved' = {}
          /\ clExpected' = {e \in ClEntries :
                              /\ clDir[e].kind = "file"
                              /\ clNow - clDir[e].mtime > UPLOAD_TTL_SECONDS}
  /\ UNCHANGED <<clNow, clDir, clStop>>
  /\ UNCHANGED clRest

\* The pass examines the next entry of the listing: a file older than the
\* TTL is removed, anything else is left.
ClExamine(e) ==
  /\ clPc = "pass"
  /\ e \in clTodo
  /\ clTodo' = clTodo \ {e}
  /\ IF clDir[e].kind = "file" /\ Expired(clPassNow, clDir[e].mtime)
     THEN /\ clDir' = [clDir EXCEPT ![e] = NoEntry]
          /\ clRemoved' = clRemoved \cup {e}
     ELSE UNCHANGED <<clDir, clRemoved>>
  /\ UNCHANGED <<clNow, clStop, clPc, clPassNow, clExpected>>
  /\ UNCHANGED clRest

\* The listing is exhausted: the worker waits on the stop event.
ClPassDone ==
  /\ clPc = "pass"
  /\ clTodo = {}
  /\ clPc' = "wait"
  /\ UNCHANGED <<clNow, clDir, clStop, clPassNow, clTodo, clRemoved, clExpected>>
  /\ UNCHANGED clRest

\* _upload_cleanup_stop.wait(UPLOAD_CLEANUP_INTERVAL) returns: the interval
\* is over or the event is set.
ClWake ==
  /\ clPc = "wait"
  /\ clPc' = "check"
  /\ UNCHANGED <<clNow, clDir, clStop, clPassNow, clTodo, clRemoved, clExpected>>
  /\ UNCHANGED clRest

\* The steps of the worker thread.
ClWorker == ClCheck \/ (\E e \in ClEntries : ClExamine(e)) \/ ClPassDone \/ ClWake

CleanupNext ==
  \/ ClTick
  \/ \E e \in ClEntries \ {"subdir"} : ClUpload(e)
  \/ ClStopSet
  \/ ClCheck
  \/ \E e \in ClEntries : ClExamine(e)
  \/ ClPassDone
  \/ ClWake

CleanupSpec == AllIdle /\ [][CleanupNext]_allVars

\* The worker thread is scheduled: a step of it that stays possible is taken.
CleanupFairSpec == CleanupSpec /\ WF_allVars(ClWorker)

RECURSIVE IsSubseq(_, _)
IsSubseq(a, b) ==
  IF a = <<>> THEN TRUE
  ELSE IF b = <<>> THEN FALSE
  ELSE IF Head(a) = Head(b) THEN IsSubseq(Tail(a), Tail(b))
  ELSE IsSubseq(a, Tail(b))

\* C36: the ids of the events table grow with the order of insertion, and
\* the rows the worker has written, taken by ascending id, follow the order
\* in which their events were enqueued.
PersistedInEnqueueOrder ==
  /\ \A i, j \in 1..Len(eventsTable) :
       i < j => eventsTable[i].id < eventsTable[j].id
  /\ IsSubseq(WorkerRows, evEnqueued)

\* Two different events were enqueued and both were written.
PersistedInOrderWitness ==
  /\ Len(evEnqueued) = 2
  /\ evEnqueued[1] # evEnqueued[2]
  /\ WorkerRows = evEnqueued

\* ------------------------------------------------- shutdown of the workers
\* The bytes of the deltas for the tid followed that are still on a queue.
RECURSIVE QueuedBytes(_)
QueuedBytes(q) ==
  IF q = <<>> THEN 0
  ELSE (IF Head(q)[1] = "a" THEN Head(q)[2] ELSE 0) + QueuedBytes(Tail(q))

\* C37: when a worker has left its loop on the shutdown sentinel, everything
\* enqueued before the sentinel has been written: the events table holds a
\* row for every event but those still on the queue (enqueued after the
\* sentinel), and bytes_sent holds every delta but those still on the queue.
ShutdownFlushesAll ==
  /\ evPc = "stopped" =>
       WorkerRows = SubSeq(evEnqueued, 1, Len(evEnqueued) - Len(EVENT_QUEUE))
  /\ twPc = "stopped" =>
       rowBytes = aEnqueued - QueuedBytes(TRANSFER_QUEUE)

====
